---- MODULE Spec2Model ----
(***************************************************************************)
(* EchoLyrics: the selection controller (LyricsManager), the aggregator    *)
(* (LyricsSearcherService, streaming revision) and the persistence store   *)
(* (localStorage under STORAGE_KEY), as a state machine (Spec); one search *)
(* call of the aggregator on its own (SpecSearch, SpecSearchFair); and the *)
(* query resolver (SearchQueryResolver) with its callers and the registry  *)
(* (SpecResolver); one search call of a network provider with its remote   *)
(* requests (SpecProviders); the two parsers with their static regular     *)
(* expressions (SpecParser); one findLineIndex call of the synchronizer    *)
(* (SpecSync); calls of the scorer and of the similarity (SpecScoring).     *)
(*                                                                         *)
(* Strings built by concatenation are triples <<prefix, text, number>>, so *)
(* that "embedded_" + Date.now() and "embedded_" + song.persistenceId stay *)
(* distinct values that can be compared with provider ids.                 *)
(***************************************************************************)
EXTENDS Integers, Sequences, FiniteSets, TLC

\* ---------------------------------------------------------------- bounds
\* number of loadLyricsForSong invocations in one behaviour
MaxLoads == 2
\* number of providers registered on the searcher
NumProviders == 2
\* longest sequence a provider's search returns
MaxBatch == 1
\* number of searches (in the order they were started) whose providers answer
MaxSearches == 1
\* number of selectLyric / markResultAsIncorrect / getLyricFromCache calls the UI makes
MaxUiCalls == 1
\* number of resolveQueries calls in one behaviour
MaxCallers == 2
\* longest list of recordings the registry answers with
MaxRecordings == 2
\* number of lines of the longest text handed to a parser
MaxLines == 2
\* number of lines of the longest LyricsData handed to findLineIndex
MaxSyncLines == 4
\* longest list of queries resolveQueries hands to a provider
MaxQueries == 2
\* longest list of tracks a provider's remote search answers with
MaxTracks == 2

\* ------------------------------------------------------------ value sets
Providers == 1..NumProviders
Loads == 1..MaxLoads

NoText == <<"", "">>
NoPid == ""
NoId == <<"", "", 0>>
NoKey == <<"", "", 0>>

Titles == {"T1"}
PersistenceIds == {NoPid, "f1"}
EmbeddedTexts == {NoText, <<"song.lyrics", "E1">>}
LocalTexts == {NoText, <<"localFileContent", "L1">>}
ProviderIds == {<<"", "1", 0>>, <<"", "2", 0>>}
ScoreValues == {40, 60, 75, 90}

\* SongInformation: title, persistenceId (NoPid = undefined), lyrics
\* (NoText = undefined). artists is the fixed one-element list ["Ar"].
Songs == [title : Titles, persistenceId : PersistenceIds, lyrics : EmbeddedTexts]

\* options of loadLyricsForSong; limit is left unset (so limit = 15)
Options == [ignoreCache : BOOLEAN, localFileContent : LocalTexts]

DefaultLimit == 15

ProviderName(p) ==
    CASE p = 1 -> "Netease Cloud Music"
      [] p = 2 -> "LRCLIB"
      [] p = 3 -> "QQ Music"
      [] OTHER -> "MockNetwork"

\* what a provider's search returns for a track id (score still 0)
ProviderResult(p, id) ==
    [id |-> id, lyricText |-> <<ProviderName(p), id[2]>>,
     source |-> ProviderName(p), score |-> 0]

VARIABLES
    currentLyrics,   \* LyricsManager.currentLyrics
    lastResults,     \* LyricsManager.lastResults
    currentSongKey,  \* LyricsManager.currentSongKey
    localStorage,    \* the parsed map stored under STORAGE_KEY
    loads,           \* the loadLyricsForSong calls: position and search tasks
    uiCalls,         \* how many calls besides loadLyricsForSong the UI made
    ev,              \* history: what the last step was and what it did
    search,          \* one LyricsSearcherService.search call observed on its own
    resolver,        \* SearchQueryResolver: isrcCache, the registry, the callers
    provider,        \* one search call of a network provider and its remote requests
    parser,          \* the parsers' static regular expressions and the last parse call
    sync,            \* one PlaybackSynchronizer.findLineIndex call: its locals
    scoring          \* one calculateScore call, and the last calculateSimilarity calls

vars == <<currentLyrics, lastResults, currentSongKey, localStorage, loads, uiCalls, ev,
          search, resolver, provider, parser, sync, scoring>>

\* ------------------------------------------------------------- LyricsData
NoScore == <<"undefined", 0>>
EmptyMeta == [source |-> "", score |-> NoScore]
Null == [null |-> TRUE, text |-> NoText, metadata |-> EmptyMeta]

\* String(best.score)
StringOf(n) == <<"str", n>>

\* Number(x || 0)
NumberOrZero(x) == IF x[1] = "undefined" THEN 0 ELSE x[2]

\* parser.parse(text): the lines of a text are kept as the text they come
\* from; metadata starts without source and score
parse(text) == [null |-> FALSE, text |-> text, metadata |-> EmptyMeta]

\* ------------------------------------------------------------------ keys
PersistenceKeyOf(song) ==
    IF song.persistenceId # NoPid
    THEN <<"pid", song.persistenceId, 0>>
    ELSE <<"title|artists", song.title, 0>>

SearchKeyOf(song, limit) == <<"SEARCH", song.title, limit>>

StoreKeys ==
    {PersistenceKeyOf(s) : s \in Songs} \cup {SearchKeyOf(s, DefaultLimit) : s \in Songs}

NoRec == [present |-> FALSE, results |-> <<>>, selectedId |-> NoId]

\* saveCache that drops the selection it is given
saveCacheNoSelection(cache, key, results, selectedId) ==
    [cache EXCEPT ![key] = [present |-> TRUE, results |-> results, selectedId |-> NoId]]

\* cache[key] = { results, selectedId }; JSON.stringify / JSON.parse keep
\* every field the model has
saveCache(cache, key, results, selectedId) ==
    [cache EXCEPT ![key] = [present |-> TRUE, results |-> results, selectedId |-> selectedId]]

\* the selection test without its selectedId half: any record counts
NoSelectionRecordOnly(cache, key) == ~cache[key].present

\* !cachedEntry || !cachedEntry.selectedId
NoSelection(cache, key) ==
    ~cache[key].present \/ cache[key].selectedId = NoId

\* ------------------------------------------------------------- sequences
\* Array.prototype.sort((a, b) => b.score - a.score): stable, descending
RECURSIVE InsertDesc(_, _)
InsertDesc(s, c) ==
    IF s = <<>> THEN <<c>>
    ELSE IF Head(s).score >= c.score THEN <<Head(s)>> \o InsertDesc(Tail(s), c)
    ELSE <<c>> \o s

RECURSIVE SortDesc(_)
SortDesc(s) ==
    IF s = <<>> THEN <<>>
    ELSE InsertDesc(SortDesc(SubSeq(s, 1, Len(s) - 1)), s[Len(s)])

\* findIndex(r => r.id === id), 0-based, -1 when absent
FindIndexById(s, id) ==
    IF \E i \in 1..Len(s) : s[i].id = id
    THEN (CHOOSE i \in 1..Len(s) : s[i].id = id /\ \A j \in 1..(i - 1) : s[j].id # id) - 1
    ELSE -1

HasSource(s, src) == \E i \in 1..Len(s) : s[i].source = src

RECURSIVE FilterNewIds(_, _)
FilterNewIds(batch, existing) ==
    IF batch = <<>> THEN <<>>
    ELSE IF \E i \in 1..Len(existing) : existing[i].id = Head(batch).id
         THEN FilterNewIds(Tail(batch), existing)
         ELSE <<Head(batch)>> \o FilterNewIds(Tail(batch), existing)

\* ------------------------------------------------------------ candidates
EmbeddedScore == 100
LocalScore == 101

EmbeddedResult(song, id) ==
    [id |-> id, lyricText |-> song.lyrics, source |-> "Embedded (ID3)", score |-> EmbeddedScore]

LocalResult(text, id) ==
    [id |-> id, lyricText |-> text, source |-> "Local File", score |-> LocalScore]

\* Date.now() as read by load l before (phase 0) and after (phase 1) its
\* search. The ids built from it are only ever compared for equality, and
\* never with one another across two reads that could fall into the same
\* millisecond with the same prefix inside one list; reads are taken as distinct.
DateNow(l, phase) == 2 * l + phase

\* "embedded_" + Date.now(), "local_" + Date.now()
TimeId(prefix, t) == <<prefix, "", t>>

\* "embedded_" + song.persistenceId, "local_" + song.persistenceId
PidId(prefix, song) ==
    <<prefix, IF song.persistenceId = NoPid THEN "undefined" ELSE song.persistenceId, 0>>

\* ----------------------------------------------------------- the manager
\* the manager's fields as one record, so that a handler's statements compose
Mgr ==
    [currentLyrics |-> currentLyrics, lastResults |-> lastResults,
     currentSongKey |-> currentSongKey, store |-> localStorage]

SetMgr(m) ==
    /\ currentLyrics' = m.currentLyrics
    /\ lastResults' = m.lastResults
    /\ currentSongKey' = m.currentSongKey
    /\ localStorage' = m.store

\* selectLyric that takes an index past the end for the last entry
selectLyricClamped(m, index, saveSelection) ==
    IF index < 0 \/ Len(m.lastResults) = 0
    THEN [m |-> m, ret |-> FALSE]
    ELSE LET best == m.lastResults[IF index >= Len(m.lastResults)
                                   THEN Len(m.lastResults) ELSE index + 1]
             data == [parse(best.lyricText) EXCEPT
                         !.metadata.source = best.source,
                         !.metadata.score = StringOf(best.score)]
             m1 == [m EXCEPT !.currentLyrics = data]
             m2 == IF saveSelection /\ m.currentSongKey # NoKey /\ best.id # NoId
                   THEN [m1 EXCEPT !.store =
                            saveCache(m1.store, m.currentSongKey, m.lastResults, best.id)]
                   ELSE m1
         IN  [m |-> m2, ret |-> TRUE]

\* selectLyric that saves the selection whatever saveSelection is
selectLyricAlwaysSaves(m, index, saveSelection) ==
    IF index < 0 \/ index >= Len(m.lastResults)
    THEN [m |-> m, ret |-> FALSE]
    ELSE LET best == m.lastResults[index + 1]
             data == [parse(best.lyricText) EXCEPT
                         !.metadata.source = best.source,
                         !.metadata.score = StringOf(best.score)]
             m1 == [m EXCEPT !.currentLyrics = data]
             m2 == IF m.currentSongKey # NoKey /\ best.id # NoId
                   THEN [m1 EXCEPT !.store =
                            saveCache(m1.store, m.currentSongKey, m.lastResults, best.id)]
                   ELSE m1
         IN  [m |-> m2, ret |-> TRUE]

\* selectLyric(index, saveSelection): [m |-> manager afterwards, ret |-> result]
selectLyric(m, index, saveSelection) ==
    IF index < 0 \/ index >= Len(m.lastResults)
    THEN [m |-> m, ret |-> FALSE]
    ELSE LET best == m.lastResults[index + 1]
             data == [parse(best.lyricText) EXCEPT
                         !.metadata.source = best.source,
                         !.metadata.score = StringOf(best.score)]
             m1 == [m EXCEPT !.currentLyrics = data]
             m2 == IF saveSelection /\ m.currentSongKey # NoKey /\ best.id # NoId
                   THEN [m1 EXCEPT !.store =
                            saveCache(m1.store, m.currentSongKey, m.lastResults, best.id)]
                   ELSE m1
         IN  [m |-> m2, ret |-> TRUE]

\* restoredResults: the persisted list with the embedded and local candidates
\* put in front when the song has them and the list does not
RestoredResults(entry, song, opts) ==
    LET r0 == entry.results
        r1 == IF song.lyrics # NoText /\ ~HasSource(r0, "Embedded (ID3)")
              THEN <<EmbeddedResult(song, PidId("embedded_", song))>> \o r0
              ELSE r0
        r2 == IF opts.localFileContent # NoText /\ ~HasSource(r1, "Local File")
              THEN <<LocalResult(opts.localFileContent, PidId("local_", song))>> \o r1
              ELSE r1
    IN  r2

\* step 2 that publishes the last entry of the cached list, not the first
LoadFromSearchCacheLast(m, cache, searchKey, opts) ==
    IF ~opts.ignoreCache /\ cache[searchKey].present
    THEN LET m1 == [m EXCEPT !.lastResults = cache[searchKey].results]
         IN  IF Len(m1.lastResults) > 0
             THEN LET r == selectLyric(m1, Len(m1.lastResults) - 1, FALSE)
                  IN  [m |-> r.m, pc |-> "returned", ret |-> r.ret, path |-> "searchCache"]
             ELSE [m |-> m1, pc |-> "returned", ret |-> FALSE, path |-> "searchCacheEmpty"]
    ELSE [m |-> m, pc |-> "searching", ret |-> FALSE, path |-> "search"]

\* step 2 of loadLyricsForSong: the search cache under searchKey, else search
LoadFromSearchCache(m, cache, searchKey, opts) ==
    IF ~opts.ignoreCache /\ cache[searchKey].present
    THEN LET m1 == [m EXCEPT !.lastResults = cache[searchKey].results]
         IN  IF Len(m1.lastResults) > 0
             THEN LET r == selectLyric(m1, 0, FALSE)
                  IN  [m |-> r.m, pc |-> "returned", ret |-> r.ret, path |-> "searchCache"]
             ELSE [m |-> m1, pc |-> "returned", ret |-> FALSE, path |-> "searchCacheEmpty"]
    ELSE [m |-> m, pc |-> "searching", ret |-> FALSE, path |-> "search"]

\* the persisted-selection branch without its ignoreCache gate
LoadFromPersistenceUngated(m, cache, persistenceKey, searchKey, song, opts) ==
    IF ~NoSelection(cache, persistenceKey)
    THEN LET m1 == [m EXCEPT !.lastResults = RestoredResults(cache[persistenceKey], song, opts)]
             idx == FindIndexById(m1.lastResults, cache[persistenceKey].selectedId)
         IN  IF idx # -1
             THEN LET r == selectLyric(m1, idx, FALSE)
                  IN  [m |-> r.m, pc |-> "returned", ret |-> r.ret, path |-> "persisted"]
             ELSE LoadFromSearchCache(m1, cache, searchKey, opts)
    ELSE LoadFromSearchCache(m, cache, searchKey, opts)

\* the persisted-selection branch of loadLyricsForSong, then step 2
LoadFromPersistence(m, cache, persistenceKey, searchKey, song, opts) ==
    IF ~opts.ignoreCache /\ ~NoSelection(cache, persistenceKey)
    THEN LET m1 == [m EXCEPT !.lastResults = RestoredResults(cache[persistenceKey], song, opts)]
             idx == FindIndexById(m1.lastResults, cache[persistenceKey].selectedId)
         IN  IF idx # -1
             THEN LET r == selectLyric(m1, idx, FALSE)
                  IN  [m |-> r.m, pc |-> "returned", ret |-> r.ret, path |-> "persisted"]
             ELSE LoadFromSearchCache(m1, cache, searchKey, opts)
    ELSE LoadFromSearchCache(m, cache, searchKey, opts)

\* loadLyricsForSong up to its first suspension (await this.searcher.search)
\* or its return: [m, pc: "returned" or "searching", ret, path]
loadLyricsForSong(m, song, opts, t) ==
    LET persistenceKey == PersistenceKeyOf(song)
        searchKey == SearchKeyOf(song, DefaultLimit)
        m0 == [m EXCEPT !.lastResults = <<>>, !.currentSongKey = persistenceKey]
        cache == m.store
    IN  IF song.lyrics # NoText /\ ~opts.ignoreCache /\ NoSelection(cache, persistenceKey)
        THEN LET m1 == [m0 EXCEPT !.lastResults =
                            <<EmbeddedResult(song, TimeId("embedded_", t))>>]
                 r == selectLyric(m1, 0, FALSE)
             IN  [m |-> r.m, pc |-> "returned", ret |-> r.ret, path |-> "embedded"]
        ELSE LET m1 == IF opts.localFileContent # NoText /\ ~opts.ignoreCache
                          /\ NoSelection(cache, persistenceKey)
                       THEN [m0 EXCEPT !.lastResults =
                                <<LocalResult(opts.localFileContent, TimeId("local_", t))>> \o @]
                       ELSE m0
             IN  LoadFromPersistence(m1, cache, persistenceKey, searchKey, song, opts)

\* the onPartial callback loadLyricsForSong hands to the searcher
onPartial(m, persistenceKey, incrementalResults) ==
    IF m.currentSongKey # persistenceKey THEN m
    ELSE LET newOnes == FilterNewIds(incrementalResults, m.lastResults)
         IN  IF Len(newOnes) > 0
             THEN LET m1 == [m EXCEPT !.lastResults = SortDesc(m.lastResults \o newOnes)]
                      best == m1.lastResults[1]
                      currentScore == NumberOrZero(m.currentLyrics.metadata.score)
                  IN  IF best.score > currentScore
                      THEN selectLyric(m1, 0, TRUE).m
                      ELSE m1
             ELSE m

\* a completion that withdraws the published lyrics when it has no candidate
completionClearsOnEmpty(m, song, opts, results, t) ==
    LET persistenceKey == PersistenceKeyOf(song)
        searchKey == SearchKeyOf(song, DefaultLimit)
        r1 == IF song.lyrics # NoText
              THEN <<EmbeddedResult(song, TimeId("embedded_", t))>> \o results
              ELSE results
        r2 == IF opts.localFileContent # NoText
              THEN <<LocalResult(opts.localFileContent, TimeId("local_", t))>> \o r1
              ELSE r1
        m1 == [m EXCEPT !.lastResults = r2]
    IN  IF Len(r2) > 0
        THEN LET s1 == saveCache(m1.store, searchKey, r2, NoId)
                 s2 == saveCache(s1, persistenceKey, r2, r2[1].id)
             IN  selectLyric([m1 EXCEPT !.store = s2], 0, FALSE)
        ELSE [m |-> [m1 EXCEPT !.currentLyrics = Null], ret |-> FALSE]

\* loadLyricsForSong after the search has resolved with results
completion(m, song, opts, results, t) ==
    LET persistenceKey == PersistenceKeyOf(song)
        searchKey == SearchKeyOf(song, DefaultLimit)
        r1 == IF song.lyrics # NoText
              THEN <<EmbeddedResult(song, TimeId("embedded_", t))>> \o results
              ELSE results
        r2 == IF opts.localFileContent # NoText
              THEN <<LocalResult(opts.localFileContent, TimeId("local_", t))>> \o r1
              ELSE r1
        m1 == [m EXCEPT !.lastResults = r2]
    IN  IF Len(r2) > 0
        THEN LET s1 == saveCache(m1.store, searchKey, r2, NoId)
                 s2 == saveCache(s1, persistenceKey, r2, r2[1].id)
             IN  selectLyric([m1 EXCEPT !.store = s2], 0, FALSE)
        ELSE [m |-> m1, ret |-> FALSE]

\* a getLyricFromCache that also restores the record's list, as a load does
getLyricFromCacheRestoring(m, song) ==
    LET cachedEntry == m.store[PersistenceKeyOf(song)]
        idx == FindIndexById(cachedEntry.results, cachedEntry.selectedId)
    IN  IF cachedEntry.present /\ cachedEntry.selectedId # NoId
        THEN [m |-> [m EXCEPT !.lastResults = cachedEntry.results],
              ret |-> IF idx # -1 THEN <<cachedEntry.results[idx + 1]>> ELSE <<>>]
        ELSE [m |-> m, ret |-> <<>>]

\* getLyricFromCache(song): [m |-> manager afterwards, ret |-> <<>> for null,
\* <<r>> for the LyricResult r]; results.find gives the first entry with the id
getLyricFromCache(m, song) ==
    LET cachedEntry == m.store[PersistenceKeyOf(song)]
        idx == FindIndexById(cachedEntry.results, cachedEntry.selectedId)
    IN  IF cachedEntry.present /\ cachedEntry.selectedId # NoId
        THEN [m |-> m,
              ret |-> IF idx # -1 THEN <<cachedEntry.results[idx + 1]>> ELSE <<>>]
        ELSE [m |-> m, ret |-> <<>>]

\* ------------------------------------------------------- the aggregator
Pending == [done |-> FALSE, results |-> <<>>]

RECURSIVE Flat(_, _)
\* resultsOfResults.flat(): the batches in provider (registration) order
Flat(batches, p) ==
    IF p > NumProviders THEN <<>> ELSE batches[p].results \o Flat(batches, p + 1)

RECURSIVE FlatReversed(_, _)
\* the batches concatenated from the last registered provider to the first
FlatReversed(batches, p) ==
    IF p < 1 THEN <<>> ELSE batches[p].results \o FlatReversed(batches, p - 1)

\* the final sort applied to the batches in reverse registration order
SearchResultsReversed(batches) == SortDesc(FlatReversed(batches, NumProviders))

\* what search() resolves with once every provider task has completed
SearchResults(batches) == SortDesc(Flat(batches, 1))

\* the scored candidates one provider task can end with, before the sort
ScoredCandidates(p) ==
    {[ProviderResult(p, id) EXCEPT !.score = sc] : id \in ProviderIds, sc \in ScoreValues}

DistinctIds(s) == \A i, j \in 1..Len(s) : i # j => s[i].id # s[j].id

ProviderReturns(p) ==
    {s \in UNION {[1..n -> ScoredCandidates(p)] : n \in 0..MaxBatch} : DistinctIds(s)}

\* ------------------------------------------- one search call on its own
\* search is one call of LyricsSearcherService.search(song, limit, onResult)
\* with every registered provider: batches are its provider tasks, returned
\* what each provider's search returned (scored, before the sort), failed the
\* providers whose search threw, arrival the providers in the order their
\* tasks completed, calls the arguments of the onResult invocations in the
\* order they were made, resolved whether search has returned, result what
\* it returned. searchAliases is song.searchAliases, which the scorer reads
\* (undefined on the song the UI builds); resolved by the aggregator's own
\* QueryResolver invocations, of which search makes none; scoredWith is
\* history: the searchAliases calculateScore found when it scored a batch
NoAliases == [defined |-> FALSE, title |-> <<>>, artist |-> <<>>]
NoSearch ==
    [batches |-> [p \in Providers |-> Pending], returned |-> [p \in Providers |-> <<>>],
     failed |-> {}, arrival |-> <<>>, calls |-> <<>>, resolved |-> FALSE, result |-> <<>>,
     searchAliases |-> NoAliases, resolverCalls |-> 0,
     scoredWith |-> [p \in Providers |-> NoAliases]]

\* onResult invoked at the front of the record instead of at its end
OnResultCallsAtFront(calls, batch) ==
    IF Len(batch) > 0 THEN <<batch>> \o calls ELSE calls

\* if (onResult && results.length > 0) onResult(results)
OnResultCalls(calls, batch) ==
    IF Len(batch) > 0 THEN Append(calls, batch) ELSE calls

\* a rejected provider task taken for one that rejects Promise.all
AllSettledUnlessFailed == \A p \in Providers : search.batches[p].done /\ p \notin search.failed

\* await Promise.all(searchTasks): every task has settled; a task whose
\* provider threw settles with [] like any other
AllSettled == \A p \in Providers : search.batches[p].done

\* --------------------------------------------------- SearchQueryResolver
\* A string is the sequence of its characters; a character outside ASCII is
\* named by its code point: U4E2D is a CJK unified ideograph, U306E a
\* hiragana, U00E9 the letter e with acute, U0301 the combining acute.
CJKChars == {"U4E2D"}
KanaChars == {"U306E"}

\* str.normalize("NFD").replace(/[\u0300-\u036f]/g, "").toLowerCase(), one
\* character at a time
NormalizeChar(c) ==
    CASE c = "A" -> <<"a">>
      [] c = "X" -> <<"x">>
      [] c = "U00E9" -> <<"e">>
      [] c = "U0301" -> <<>>
      [] OTHER -> <<c>>

RECURSIVE normalize(_)
normalize(str) ==
    IF str = <<>> THEN <<>> ELSE NormalizeChar(Head(str)) \o normalize(Tail(str))

Min3(a, b, c) ==
    IF a <= b /\ a <= c THEN a ELSE IF b <= c THEN b ELSE c

\* row i of the matrix d that levenshteinDistance fills, from column j on:
\* prev is row i - 1, row the columns 0..j-1 of row i (column k at index k + 1)
RECURSIVE LevRow(_, _, _, _, _, _)
LevRow(s, t, prev, i, j, row) ==
    IF j > Len(t) THEN row
    ELSE LET cost == IF t[j] = s[i] THEN 0 ELSE 1
         IN  LevRow(s, t, prev, i, j + 1,
                    Append(row, Min3(prev[j + 1] + 1, row[j] + 1, prev[j] + cost)))

\* the rows i..n of the matrix; the result is row n
RECURSIVE LevRows(_, _, _, _)
LevRows(s, t, prev, i) ==
    IF i > Len(s) THEN prev
    ELSE LevRows(s, t, LevRow(s, t, prev, i, 1, <<i>>), i + 1)

\* levenshteinDistance(s, t) = d[n][m]
levenshteinDistance(s, t) ==
    IF Len(s) = 0 THEN Len(t)
    ELSE IF Len(t) = 0 THEN Len(s)
    ELSE LevRows(s, t, [j \in 1..(Len(t) + 1) |-> j - 1], 1)[Len(t) + 1]

\* a similarity that divides by the length of its first argument
calculateSimilarityByFirst(s, t) ==
    LET sNorm == normalize(s)
        tNorm == normalize(t)
        maxLen == Len(sNorm)
    IN  IF maxLen = 0 THEN [num |-> 1, den |-> 1]
        ELSE [num |-> maxLen - levenshteinDistance(sNorm, tNorm), den |-> maxLen]

\* calculateSimilarity(s, t) = 1.0 - dist / maxLen as the fraction num / den
calculateSimilarity(s, t) ==
    LET sNorm == normalize(s)
        tNorm == normalize(t)
        maxLen == IF Len(sNorm) >= Len(tNorm) THEN Len(sNorm) ELSE Len(tNorm)
    IN  IF maxLen = 0 THEN [num |-> 1, den |-> 1]
        ELSE [num |-> maxLen - levenshteinDistance(sNorm, tNorm), den |-> maxLen]

\* a > b on fractions
FracGreater(a, b) == a.num * b.den > b.num * a.den

\* x <= 0.8
BelowOrAtOverrideSimilarity(x) == 5 * x.num <= 4 * x.den

\* x < 0.8
BelowOverrideSimilarity(x) == 5 * x.num < 4 * x.den

\* getPriority(item) of sortMetadataByLanguage
getPriority(item) ==
    LET text == item.title \o <<" ">> \o item.artist
        hasCJK == \E i \in 1..Len(text) : text[i] \in CJKChars
        hasKana == \E i \in 1..Len(text) : text[i] \in KanaChars
    IN  IF hasCJK /\ ~hasKana THEN 3
        ELSE IF hasKana THEN 2
        ELSE 1

\* candidates.sort((a, b) => getPriority(b) - getPriority(a)): stable
RECURSIVE InsertByPriority(_, _)
InsertByPriority(s, c) ==
    IF s = <<>> THEN <<c>>
    ELSE IF getPriority(Head(s)) >= getPriority(c)
         THEN <<Head(s)>> \o InsertByPriority(Tail(s), c)
         ELSE <<c>> \o s

RECURSIVE sortMetadataByLanguage(_)
sortMetadataByLanguage(candidates) ==
    IF candidates = <<>> THEN <<>>
    ELSE InsertByPriority(sortMetadataByLanguage(SubSeq(candidates, 1, Len(candidates) - 1)),
                          candidates[Len(candidates)])

\* the loop of fetchMusicBrainzMetadata over data.recordings: a recording
\* without title is skipped, a title|artist seen before is skipped
RECURSIVE CandidatesFrom(_, _)
CandidatesFrom(recordings, candidates) ==
    IF recordings = <<>> THEN candidates
    ELSE LET rec == Head(recordings)
             seen == \E i \in 1..Len(candidates) : candidates[i] = rec
         IN  CandidatesFrom(Tail(recordings),
                            IF rec.title # <<>> /\ ~seen THEN Append(candidates, rec)
                            ELSE candidates)

\* what fetchMusicBrainzMetadata resolves with: the candidates of the
\* response, [] when the response is not ok or the request throws
fetchMusicBrainzMetadata(ok, recordings) ==
    IF ok THEN CandidatesFrom(recordings, <<>>) ELSE <<>>

\* the loop over uniqueQueries that finds the highest similarity
RECURSIVE MaxSim(_, _, _)
MaxSim(inputTitle, queries, maxSim) ==
    IF queries = <<>> THEN maxSim
    ELSE LET sim == calculateSimilarity(inputTitle, Head(queries).title)
         IN  MaxSim(inputTitle, Tail(queries), IF FracGreater(sim, maxSim) THEN sim ELSE maxSim)

\* a resolveQueries that returns the registry pairs alone
ResolveFromWithoutFallback(song, mbMetadata) ==
    IF Len(mbMetadata) > 0 THEN sortMetadataByLanguage(mbMetadata) ELSE <<>>

\* resolveQueries from its await on: mbMetadata is what the future gave
\* (<<>> for a song without ISRC)
ResolveFrom(song, mbMetadata) ==
    LET uniqueQueries == IF Len(mbMetadata) > 0 THEN sortMetadataByLanguage(mbMetadata) ELSE <<>>
        isManualOverride ==
            IF Len(uniqueQueries) > 0
            THEN BelowOverrideSimilarity(MaxSim(song.title, uniqueQueries, [num |-> 0, den |-> 1]))
            ELSE TRUE
        manualQuery == [title |-> song.title, artist |-> song.artist]
        exists == \E i \in 1..Len(uniqueQueries) : uniqueQueries[i] = manualQuery
    IN  IF isManualOverride \/ Len(uniqueQueries) = 0
        THEN IF exists THEN uniqueQueries ELSE <<manualQuery>> \o uniqueQueries
        ELSE uniqueQueries

\* a resolveQueries that sorts and unshifts on the awaited array itself
CachedAfterResolveInPlace(song, mbMetadata) ==
    IF Len(mbMetadata) > 0 THEN ResolveFrom(song, mbMetadata) ELSE mbMetadata

\* the array the cached Promise holds once resolveQueries has returned:
\* candidates = [...mbMetadata] takes the sort, and with it the unshift of
\* the manual query, to a copy
CachedAfterResolve(song, mbMetadata) == mbMetadata

Callers == 1..MaxCallers
NoIsrc == ""
Isrcs == {"I1", "I2"}

ResolverTitles ==
    {<<"a", "b", "c", "d", "e">>, <<"A", "b", "c", "d", "e">>,
     <<"a", "b", "c", "d", "x">>, <<"a", "b", "c", "x", "y">>}

\* SongInformation as resolveQueries reads it: title, artists[0] (<<>> when
\* there is none) and isrc (NoIsrc when there is none)
ResolverSongs ==
    [title : ResolverTitles, artist : {<<>>, <<"X">>}, isrc : Isrcs \cup {NoIsrc}]

\* recording.title and recording['artist-credit'][0].name of the recordings
\* the registry answers with
Recordings ==
    {[title |-> <<"a", "b", "c", "d", "e">>, artist |-> <<"X">>],
     [title |-> <<"U4E2D">>, artist |-> <<"X">>],
     [title |-> <<"U4E2D", "U306E">>, artist |-> <<"X">>],
     [title |-> <<>>, artist |-> <<"X">>]}

RegistryResponses == UNION {[1..n -> Recordings] : n \in 0..MaxRecordings}

\* an entry of isrcCache: absent, or a Promise that is pending or fulfilled.
\* value is the array the Promise was fulfilled with, as it is now. failed,
\* received and fetched are history: whether the lookup ended in an HTTP
\* error or an exception, how many recordings the registry's answer held, and
\* the array as fetchMusicBrainzMetadata returned it
NoPromise ==
    [state |-> "absent", value |-> <<>>, failed |-> FALSE, received |-> 0, fetched |-> <<>>]

NoCallerSong == [title |-> <<>>, artist |-> <<>>, isrc |-> NoIsrc]
IdleCaller == [pc |-> "idle", song |-> NoCallerSong, hit |-> FALSE, result |-> <<>>]

\* isrcCache is static; requests counts the registry requests per ISRC; a
\* caller is one resolveQueries call (on whichever instance): idle, awaiting
\* the future, or returned; hit is whether it found the future in the cache
NoResolver ==
    [isrcCache |-> [i \in Isrcs |-> NoPromise], requests |-> [i \in Isrcs |-> 0],
     callers |-> [c \in Callers |-> IdleCaller]]

\* a cache that is never found to hold the ISRC
isrcCacheHasNever(cache, isrc) == FALSE

\* SearchQueryResolver.isrcCache.has(song.isrc)
isrcCacheHas(cache, isrc) == cache[isrc].state # "absent"

\* ------------------------------------------------------------ the scorer
\* A score before rounding is the fraction num / den with den > 0.
\* Math.round(x) = floor(x + 0.5)
MathRound(x) == (2 * x.num + x.den) \div (2 * x.den)

\* tokenize(str) of calculateArtistSimilarity, as the set of its tokens:
\* lower case, "&" and "/" taken for ",", split at runs of "," and " ",
\* empty pieces dropped
tokenize(str) ==
    LET lower == [i \in 1..Len(str) |->
                     CASE str[i] = "A" -> "a" [] str[i] = "X" -> "x" [] OTHER -> str[i]]
        sep(i) == lower[i] \in {"&", "/", ",", " "}
    IN  {SubSeq(lower, i, j) : <<i, j>> \in
            {ij \in (1..Len(str)) \X (1..Len(str)) :
                /\ ij[1] <= ij[2]
                /\ \A k \in ij[1]..ij[2] : ~sep(k)
                /\ ij[1] = 1 \/ sep(ij[1] - 1)
                /\ ij[2] = Len(str) \/ sep(ij[2] + 1)}}

\* targetArtists.join(" ")
RECURSIVE join(_)
join(arr) ==
    IF arr = <<>> THEN <<>>
    ELSE IF Len(arr) = 1 THEN arr[1]
    ELSE arr[1] \o <<" ">> \o join(Tail(arr))

\* calculateArtistSimilarity(targetArtists, candidateArtist) as a fraction
calculateArtistSimilarity(targetArtists, candidateArtist) ==
    LET targetTokens == UNION {tokenize(targetArtists[i]) : i \in 1..Len(targetArtists)}
        candidateTokens == tokenize(candidateArtist)
        matchCount == Cardinality(targetTokens \cap candidateTokens)
        union == Cardinality(targetTokens \cup candidateTokens)
        jaccard == [num |-> matchCount, den |-> union]
        sim == calculateSimilarity(join(targetArtists), candidateArtist)
    IN  IF union = 0 THEN [num |-> 0, den |-> 1]
        ELSE IF matchCount = Cardinality(targetTokens) \/ matchCount = Cardinality(candidateTokens)
             THEN [num |-> 1, den |-> 1]
        ELSE IF 2 * jaccard.num > jaccard.den THEN jaccard
        ELSE IF FracGreater(sim, jaccard) THEN sim ELSE jaccard

\* a table whose last two rows both take 10 points off
calculateDurationScoreFlat(diffMs) ==
    IF diffMs <= 1000 THEN 10
    ELSE IF diffMs <= 3000 THEN 7
    ELSE IF diffMs <= 5000 THEN 4
    ELSE IF diffMs <= 10000 THEN 0
    ELSE -10

\* calculateDurationScore(diffMs)
calculateDurationScore(diffMs) ==
    IF diffMs <= 1000 THEN 10
    ELSE IF diffMs <= 3000 THEN 7
    ELSE IF diffMs <= 5000 THEN 4
    ELSE IF diffMs <= 10000 THEN 0
    ELSE IF diffMs <= 20000 THEN -5
    ELSE -10

\* calculateScoreInternal(targetTitle, targetArtists, target, candidate): a
\* string that is undefined or "" is <<>>, a duration that is undefined is 0
calculateScoreInternal(targetTitle, targetArtists, target, candidate) ==
    LET zero == [num |-> 0, den |-> 1]
        t == IF candidate.title # <<>>
             THEN calculateSimilarity(targetTitle, candidate.title) ELSE zero
        a == IF candidate.artist # <<>>
             THEN calculateArtistSimilarity(targetArtists, candidate.artist) ELSE zero
        b == IF target.album # <<>> /\ candidate.album # <<>>
             THEN calculateSimilarity(target.album, candidate.album) ELSE zero
        diff == IF target.duration >= candidate.duration
                THEN target.duration - candidate.duration
                ELSE candidate.duration - target.duration
        d == IF target.duration > 0 /\ candidate.duration > 0
             THEN calculateDurationScore(diff) ELSE 0
        den == t.den * a.den * b.den
    IN  MathRound([num |-> 40 * t.num * a.den * b.den + 30 * a.num * t.den * b.den
                            + 20 * b.num * t.den * a.den + d * den,
                   den |-> den])

\* calculateScore(target, candidate): the highest score over the primary
\* title and artists and the aliases of target.searchAliases
calculateScore(target, candidate) ==
    LET al == target.searchAliases
        titles == {al.title[i] : i \in 1..Len(al.title)}
        artists == {al.artist[i] : i \in 1..Len(al.artist)}
        scores ==
            {calculateScoreInternal(target.title, target.artists, target, candidate)}
            \cup (IF al.defined
                  THEN {calculateScoreInternal(x, target.artists, target, candidate) : x \in titles}
                       \cup {calculateScoreInternal(target.title, <<y>>, target, candidate) :
                                y \in artists}
                       \cup {calculateScoreInternal(x, <<y>>, target, candidate) :
                                x \in titles, y \in artists}
                  ELSE {})
    IN  CHOOSE m \in scores : \A n \in scores : n <= m

\* the scorer's caller: target and candidate of the last calculateScore call
\* and its result (scored: there was one); sims up to two
\* calculateSimilarity calls in the order they were made, each with its result
NoScoring ==
    [scored |-> FALSE,
     target |-> [title |-> <<>>, artists |-> <<>>, album |-> <<>>, duration |-> 0,
                 searchAliases |-> NoAliases],
     candidate |-> [title |-> <<>>, artist |-> <<>>, album |-> <<>>, duration |-> 0],
     score |-> 0, sims |-> <<>>]

\* ------------------------------------------------- the network providers
\* a JSON value read from a remote response: a string, or null / undefined
Undefined == [defined |-> FALSE, s |-> ""]
Str(s) == [defined |-> TRUE, s |-> s]

\* the truthiness test of if (v) and of v || w
Truthy(v) == v.defined /\ v.s # ""

\* the lyrics fields remote responses carry
RemoteLyrics == {Undefined, Str(""), Str("[00:01.00]a")}

\* what LRCLIB's /search answers with: not ok (or fetch threw, or no array),
\* or an array of items with their syncedLyrics and plainLyrics
LrclibResponses ==
    {[ok |-> FALSE, items |-> <<>>]}
        \cup {[ok |-> TRUE, items |-> it] :
                 it \in UNION {[1..n -> [syncedLyrics : RemoteLyrics, plainLyrics : RemoteLyrics]] :
                                  n \in 0..MaxTracks}}

\* what Netease's /song/lyric answers with: fetch or json() threw, or a body
\* with code, lrc (present or not) and lrc.lyric
NeteaseLyricResponses ==
    [threw : BOOLEAN, code : {200, 404}, lrc : BOOLEAN, lyric : RemoteLyrics]

\* what QQ Music's fcg_query_lyric_new answers with: fetch threw, or a text in
\* which a JSON object is found or not, with its lyric field (base64)
QQLyricResponses ==
    [threw : BOOLEAN, json : BOOLEAN,
     lyric : {Undefined, Str(""), Str(" "), Str("!"), Str("W10="), Str("WzAwOjAxLjAwXWE=")}]

\* atob(s) on the lyric strings above: ASCII whitespace is dropped before
\* decoding, a character outside the alphabet throws
atob(s) ==
    CASE s = "" -> [threw |-> FALSE, s |-> ""]
      [] s = " " -> [threw |-> FALSE, s |-> ""]
      [] s = "W10=" -> [threw |-> FALSE, s |-> "[]"]
      [] s = "WzAwOjAxLjAwXWE=" -> [threw |-> FALSE, s |-> "[00:01.00]a"]
      [] OTHER -> [threw |-> TRUE, s |-> ""]

\* the value a track's lyric promise resolves with: null, or a LyricResult
NullResult == [null |-> TRUE, id |-> 0, lyricText |-> "", source |-> ""]
LyricResult(id, lyricText, source) ==
    [null |-> FALSE, id |-> id, lyricText |-> lyricText, source |-> source]

\* LRCLibNetworkProvider.mapToLyricResult, item i of the array
mapToLyricResult(item, i) ==
    LyricResult(i,
                IF Truthy(item.syncedLyrics) THEN item.syncedLyrics.s
                ELSE IF Truthy(item.plainLyrics) THEN item.plainLyrics.s ELSE "",
                "LRCLIB")

\* the async callback of NeteaseNetworkProvider.doSearch for one track
NeteaseLyricOf(id, resp) ==
    IF ~resp.threw /\ resp.code = 200 /\ resp.lrc /\ Truthy(resp.lyric)
    THEN LyricResult(id, resp.lyric.s, "Netease Cloud Music")
    ELSE NullResult

\* the async callback of QQMusicNetworkProvider.processSearchResults
QQLyricOf(id, resp) ==
    IF ~resp.threw /\ resp.json /\ Truthy(resp.lyric) /\ ~atob(resp.lyric.s).threw
    THEN LyricResult(id, atob(resp.lyric.s).s, "QQ Music")
    ELSE NullResult

\* a provider's search call: idle, searching (the search request of query
\* number query is in flight), fetching (the lyric requests of the tracks
\* are in flight; lyrics holds for each whether it is done and its value) or
\* returned with result. History: requests holds, for every remote request
\* sent (search or lyric), the number of the query it was sent for, in the
\* order they were sent; yields what doSearch returned for each query
\* searched, in order; failed the queries whose search request failed (fetch
\* or json() threw, or the answer was not ok)
NoProviderCall ==
    [name |-> "", pc |-> "idle", queries |-> 0, query |-> 0,
     lyrics |-> <<>>, result |-> <<>>, requests |-> <<>>, yields |-> <<>>, failed |-> {}]

\* ------------------------------------------------------------ the parsers
\* A line of text is a sequence of tokens: a timestamp tag "[mm:ss.cc]", a
\* syllable marker "<mm:ss.cc>", a tag "[x:y]" that META_REGEX matches, or
\* one character. No match of the three regular expressions starts inside a
\* token or spans two tokens.
Ts(m, sec, c) == [kind |-> "ts", m |-> m, s |-> sec, c |-> c, ch |-> ""]
Syl(m, sec, c) == [kind |-> "syl", m |-> m, s |-> sec, c |-> c, ch |-> ""]
Meta == [kind |-> "meta", m |-> 0, s |-> 0, c |-> 0, ch |-> ""]
Ch(ch) == [kind |-> "ch", m |-> 0, s |-> 0, c |-> 0, ch |-> ch]

\* the number of characters of a token
Width(tok) ==
    CASE tok.kind = "ts" -> 10
      [] tok.kind = "syl" -> 10
      [] tok.kind = "meta" -> 5
      [] OTHER -> 1

\* Math.round((parseInt(mm, 10) * 60 + parseFloat(ss.cc)) * 1000)
TimeMs(tok) == (tok.m * 60 + tok.s) * 1000 + tok.c * 10

\* the index in the string at which token i of line starts
RECURSIVE OffsetOf(_, _)
OffsetOf(line, i) == IF i = 1 THEN 0 ELSE OffsetOf(line, i - 1) + Width(line[i - 1])

\* String.prototype.trim: what lies between the first and the last token
\* that is not white space
trim(line) ==
    LET inked == {i \in 1..Len(line) : ~(line[i].kind = "ch" /\ line[i].ch = " ")}
    IN  IF inked = {} THEN <<>>
        ELSE SubSeq(line, CHOOSE i \in inked : \A j \in inked : i <= j,
                          CHOOSE i \in inked : \A j \in inked : i >= j)

\* the positions in line of the matches of a global regular expression of
\* kind k (TIMESTAMP_REGEX: "ts", SYLLABLE_REGEX: "syl") that start at or
\* after lastIndex
MatchesFrom(line, k, lastIndex) ==
    {i \in 1..Len(line) : line[i].kind = k /\ OffsetOf(line, i) >= lastIndex}

\* RegExp.prototype.test of a global regular expression: the search starts at
\* lastIndex; a match leaves lastIndex at its end, a failure at 0
RegexTest(line, k, lastIndex) ==
    LET found == MatchesFrom(line, k, lastIndex)
        first == CHOOSE i \in found : \A j \in found : i <= j
    IN  IF found = {} THEN [found |-> FALSE, lastIndex |-> 0]
        ELSE [found |-> TRUE, lastIndex |-> OffsetOf(line, first) + Width(line[first])]

\* [...line.matchAll(regex)]: the positions of the matches of a clone of the
\* regular expression that starts at the lastIndex of the original, in order
matchAll(line, k, lastIndex) ==
    SelectSeq([i \in 1..Len(line) |-> i], LAMBDA i : i \in MatchesFrom(line, k, lastIndex))

\* line.replace(regex, ''): every match is removed (the search starts at 0)
replaceAll(line, k) == SelectSeq(line, LAMBDA tok : tok.kind # k)

\* line.match(META_REGEX): the first tag [key:value] anywhere in the line
HasMetaMatch(line) == \E i \in 1..Len(line) : line[i].kind = "meta"

\* metadata, for the one tag of the model: its key is "x", its value "y"
NoMetadata == [x |-> ""]

\* a sort that leaves the entries in the order they were pushed
SortByTimeNot(entries) == entries

\* parsedEntries.sort((a, b) => a.time - b.time): ascending and stable, so
\* entry i comes after the entries of a smaller time and the earlier entries
\* of its own time
SortByTime(entries) ==
    LET before(i) == {j \in 1..Len(entries) :
                         \/ entries[j].time < entries[i].time
                         \/ entries[j].time = entries[i].time /\ j < i}
    IN  [k \in 1..Len(entries) |->
            entries[CHOOSE i \in 1..Len(entries) : Cardinality(before(i)) = k - 1]]

\* the callback of rawLines.forEach for the line at index, from the state st
\* = [lastIndex (of TIMESTAMP_REGEX), entries (parsedEntries), metadata]
ParseLine(rawLine, index, st) ==
    LET line == trim(rawLine)
        t == RegexTest(line, "ts", st.lastIndex)
        lastIndex == IF HasMetaMatch(line) THEN t.lastIndex ELSE st.lastIndex
        matches == matchAll(line, "ts", lastIndex)
        text == trim(replaceAll(line, "ts"))
    IN  IF line = <<>> THEN st
        ELSE IF HasMetaMatch(line) /\ ~t.found
        THEN [st EXCEPT !.lastIndex = lastIndex, !.metadata.x = "y"]
        ELSE IF Len(matches) > 0
        THEN [st EXCEPT !.lastIndex = 0,
                        !.entries = @ \o [j \in 1..Len(matches) |->
                            [time |-> TimeMs(line[matches[j]]), text |-> text,
                             rawIndex |-> index]]]
        ELSE [st EXCEPT !.lastIndex = lastIndex]

RECURSIVE ParseLines(_, _, _)
ParseLines(rawLines, index, st) ==
    IF index > Len(rawLines) THEN st
    ELSE ParseLines(rawLines, index + 1, ParseLine(rawLines[index], index, st))

\* a grouping that counts the layers on through every group
GroupLayersRunning(entries, i, currentGroupTime, currentLayer, lines) ==
    [j \in 1..Len(entries) |->
        [startTime |-> entries[j].time, text |-> entries[j].text, layer |-> j - 1,
         hasSyllables |-> FALSE, syllables |-> <<>>]]

\* the grouping loop of parse over the sorted entries
RECURSIVE GroupLayers(_, _, _, _, _)
GroupLayers(entries, i, currentGroupTime, currentLayer, lines) ==
    IF i > Len(entries) THEN lines
    ELSE LET same == (IF entries[i].time >= currentGroupTime
                      THEN entries[i].time - currentGroupTime
                      ELSE currentGroupTime - entries[i].time) < 1
             layer == IF same THEN currentLayer + 1 ELSE 0
         IN  GroupLayers(entries, i + 1,
                         IF same THEN currentGroupTime ELSE entries[i].time, layer,
                         Append(lines, [startTime |-> entries[i].time,
                                        text |-> entries[i].text, layer |-> layer,
                                        hasSyllables |-> FALSE, syllables |-> <<>>]))

\* StandardLrcParser.parse(rawText) with TIMESTAMP_REGEX.lastIndex = lastIndex
\* at the call: the LyricsData, the parsedEntries and the lastIndex it leaves
StandardParse(rawLines, lastIndex) ==
    LET st == ParseLines(rawLines, 1, [lastIndex |-> lastIndex, entries |-> <<>>,
                                       metadata |-> NoMetadata])
        sorted == SortByTime(st.entries)
    IN  [lines |-> GroupLayers(sorted, 1, -1, 0, <<>>), metadata |-> st.metadata,
         entries |-> st.entries, lastIndex |-> st.lastIndex]

\* EnhancedLrcParser.parseSyllables(text, lineStartTime)
parseSyllables(text, lineStartTime) ==
    LET matches == matchAll(text, "syl", 0)
    IN  [i \in 1..Len(matches) |->
            LET startTime == TimeMs(text[matches[i]])
                duration == IF i < Len(matches)
                            THEN TimeMs(text[matches[i + 1]]) - startTime
                            ELSE 0
            IN  [startTime |-> startTime - lineStartTime,
                 duration |-> IF duration > 0 THEN duration ELSE 0,
                 text |-> SubSeq(text, matches[i] + 1,
                                 IF i < Len(matches) THEN matches[i + 1] - 1 ELSE Len(text))]]

\* basicData.lines.forEach from line i on, with SYLLABLE_REGEX.lastIndex =
\* lastIndex: a test that fails leaves lastIndex at 0, and so do
\* parseSyllables and replace after a test that succeeds
RECURSIVE EnhanceLines(_, _, _)
EnhanceLines(lines, i, lastIndex) ==
    IF i > Len(lines) THEN lines
    ELSE EnhanceLines(
             IF RegexTest(lines[i].text, "syl", lastIndex).found
             THEN [lines EXCEPT ![i].hasSyllables = TRUE,
                                ![i].syllables = parseSyllables(lines[i].text, lines[i].startTime),
                                ![i].text = trim(replaceAll(lines[i].text, "syl"))]
             ELSE lines,
             i + 1, 0)

\* EnhancedLrcParser.parse(rawText)
EnhancedParse(rawLines, lastIndex) ==
    LET basicData == StandardParse(rawLines, lastIndex)
    IN  [basicData EXCEPT !.lines = EnhanceLines(basicData.lines, 1, 0)]

\* the call parser.parse(rawText) on a parser of kind "standard" or "enhanced"
ParseOf(kind, rawLines, lastIndex) ==
    IF kind = "enhanced" THEN EnhancedParse(rawLines, lastIndex)
    ELSE StandardParse(rawLines, lastIndex)

\* the lines of the texts handed to the parsers
ParserLines ==
    LET T0 == Ts(0, 0, 0)
        T1 == Ts(0, 1, 0)
        T2 == Ts(0, 2, 0)
        S1 == Syl(0, 1, 0)
        S15 == Syl(0, 1, 50)
    IN  {<<T1, Ch("a")>>, <<T2, Ch("b")>>, <<T1, Ch("b")>>, <<T0, Ch("a")>>,
         <<T2, T1, Ch("a")>>, <<Ch("a")>>, <<Ch(" "), T1, Ch(" "), Ch("a")>>,
         <<Meta>>, <<T1, Ch("a"), Meta>>, <<T1, T2, Meta>>,
         <<T1, S1, Ch("a"), S15, Ch("b")>>, <<T1, Ch("a"), S15, Ch("b")>>,
         <<T1, S15, Ch("a"), S1, Ch("b")>>, <<T1, S1, Ch("a"), Ch(" "), S15>>}

\* lastIndex is TIMESTAMP_REGEX.lastIndex (static, shared by every
\* instance). The other fields are the last parse call while its caller holds
\* the LyricsData: the parser's kind, rawText, the lastIndex found at the
\* call, parsedEntries and the LyricsData returned
NoParse ==
    [lastIndex |-> 0, pc |-> "idle", kind |-> "", rawText |-> <<>>, lastIndexAtCall |-> 0,
     entries |-> <<>>, lines |-> <<>>, metadata |-> NoMetadata]

\* ------------------------------------------------------ the synchronizer
\* lyrics.lines, as the start times of the lines: sorted, as the parsers
\* return them; lines of a layer group share their start time
SortedLines ==
    {l \in UNION {[1..n -> {1000, 2000, 3000}] : n \in 0..MaxSyncLines} :
        \A i \in 1..(Len(l) - 1) : l[i] <= l[i + 1]}

\* a call of findLineIndex: idle (not called), loop (at the while test) or
\* returned; low, high, result are its locals, ret what it returned
NoFind ==
    [pc |-> "idle", lines |-> <<>>, currentTimeMs |-> 0,
     low |-> 0, high |-> 0, result |-> -1, ret |-> -1]

\* a loop body that takes only the lines that start before currentTimeMs
LoopBodyStrict(f) ==
    LET mid == (f.low + f.high) \div 2
    IN  IF f.lines[mid + 1] < f.currentTimeMs
        THEN [f EXCEPT !.result = mid, !.low = mid + 1]
        ELSE [f EXCEPT !.high = mid - 1]

\* the body of the while loop of findLineIndex (lines[mid] is f.lines[mid + 1])
LoopBody(f) ==
    LET mid == (f.low + f.high) \div 2
    IN  IF f.lines[mid + 1] <= f.currentTimeMs
        THEN [f EXCEPT !.result = mid, !.low = mid + 1]
        ELSE [f EXCEPT !.high = mid - 1]

\* ----------------------------------------------------------------- state
NoSong == [title |-> "", persistenceId |-> NoPid, lyrics |-> NoText]
NoOpts == [ignoreCache |-> FALSE, localFileContent |-> NoText]

\* a loadLyricsForSong call: pc is "idle" (not invoked), "searching" (suspended
\* in await this.searcher.search) or "returned"; batches are the provider
\* tasks of its search. lastPub is history: the score this call published
\* last (-1: none yet), searched whether it reached the aggregator
IdleLoad ==
    [pc |-> "idle", song |-> NoSong, opts |-> NoOpts,
     batches |-> [p \in Providers |-> Pending], lastPub |-> -1, searched |-> FALSE]

ReturnedLoad == [IdleLoad EXCEPT !.pc = "returned"]

\* history record of the last step
NoEv ==
    [kind |-> "Init", l |-> 0, song |-> NoSong, opts |-> NoOpts, path |-> "",
     ret |-> FALSE, noSel |-> FALSE, stale |-> FALSE, sameKey |-> FALSE,
     top |-> 0, save |-> FALSE, oor |-> FALSE, id |-> NoId,
     prevPub |-> -1, prevScore |-> NoScore, results |-> <<>>, got |-> <<>>,
     published |-> FALSE, chLyrics |-> FALSE, chResults |-> FALSE, chStore |-> FALSE]

\* the history record of a step that takes the manager from Mgr to m
Effect(e, m) ==
    [e EXCEPT !.chLyrics = (m.currentLyrics # currentLyrics),
              !.chResults = (m.lastResults # lastResults),
              !.chStore = (m.store # localStorage),
              !.prevScore = currentLyrics.metadata.score]

\* a load invoked after load l
Newer(l) == \E k \in Loads : k > l /\ loads[k].pc # "idle"

Init ==
    /\ currentLyrics = Null
    /\ lastResults = <<>>
    /\ currentSongKey = NoKey
    /\ localStorage = [k \in StoreKeys |-> NoRec]
    /\ loads = [l \in Loads |-> IdleLoad]
    /\ uiCalls = 0
    /\ ev = NoEv
    /\ search = NoSearch
    /\ resolver = NoResolver
    /\ provider = NoProviderCall
    /\ parser = NoParse
    /\ sync = NoFind
    /\ scoring = NoScoring

\* the UI (or a test) calls loadLyricsForSong(song, opts); the call runs to its
\* return or to its await, where the provider tasks have been started. Of a
\* search whose providers never answer, song and opts are never read again
\* and are not kept
Load(l, song, opts) ==
    /\ loads[l].pc = "idle"
    /\ \A k \in Loads : k < l => loads[k].pc # "idle"
    /\ LET r == loadLyricsForSong(Mgr, song, opts, DateNow(l, 0))
       IN  /\ SetMgr(r.m)
           /\ loads' = [loads EXCEPT ![l] =
                  IF r.pc = "searching"
                  THEN IF Cardinality({k \in Loads : loads[k].searched}) < MaxSearches
                       THEN [IdleLoad EXCEPT !.pc = "searching", !.song = song, !.opts = opts,
                                            !.searched = TRUE]
                       ELSE [IdleLoad EXCEPT !.pc = "searching", !.searched = TRUE]
                  ELSE [ReturnedLoad EXCEPT !.lastPub =
                           IF r.ret THEN NumberOrZero(r.m.currentLyrics.metadata.score) ELSE -1]]
           /\ ev' = Effect([NoEv EXCEPT !.kind = "Load", !.l = l, !.song = song, !.opts = opts,
                               !.path = r.path, !.ret = r.ret, !.published = r.ret,
                               !.noSel = (~localStorage[PersistenceKeyOf(song)].present
                                          \/ localStorage[PersistenceKeyOf(song)].selectedId = NoId),
                               !.sameKey = (currentSongKey = PersistenceKeyOf(song))], r.m)
    /\ UNCHANGED <<uiCalls, search, resolver, provider, parser, sync, scoring>>

\* load l's search is one of the first MaxSearches searches: the providers
\* answer those, the tasks of a later search stay pending
Answered(l) == Cardinality({k \in Loads : k <= l /\ loads[k].searched}) <= MaxSearches

\* one provider task of load l's search completes: res are its candidates
\* with their scores (ok), or the task failed; a non-empty batch goes to
\* the onPartial callback
ProviderDone(l, p, ok, res) ==
    /\ loads[l].pc = "searching"
    /\ Answered(l)
    /\ ~loads[l].batches[p].done
    /\ ~ok => res = <<>>
    /\ LET batch == SortDesc(res)
           key == PersistenceKeyOf(loads[l].song)
           m == IF Len(batch) > 0 THEN onPartial(Mgr, key, batch) ELSE Mgr
           pub == m.currentLyrics # currentLyrics
       IN  /\ SetMgr(m)
           /\ loads' = [loads EXCEPT ![l].batches[p] = [done |-> TRUE, results |-> batch],
                                     ![l].lastPub = IF pub
                                                    THEN NumberOrZero(m.currentLyrics.metadata.score)
                                                    ELSE @]
           /\ ev' = Effect([NoEv EXCEPT !.kind = "Partial", !.l = l, !.results = batch,
                               !.top = IF Len(batch) > 0 THEN batch[1].score ELSE 0,
                               !.stale = Newer(l), !.sameKey = (currentSongKey = key),
                               !.prevPub = loads[l].lastPub, !.published = pub], m)
    /\ UNCHANGED <<uiCalls, search, resolver, provider, parser, sync, scoring>>

\* every provider task of load l has completed: search() resolves and
\* loadLyricsForSong runs from its await to its return
SearchDone(l) ==
    /\ loads[l].pc = "searching"
    /\ \A p \in Providers : loads[l].batches[p].done
    /\ LET results == SearchResults(loads[l].batches)
           r == completion(Mgr, loads[l].song, loads[l].opts, results, DateNow(l, 1))
       IN  /\ SetMgr(r.m)
           /\ loads' = [loads EXCEPT ![l] = [ReturnedLoad EXCEPT !.searched = TRUE, !.lastPub =
                           IF r.ret THEN NumberOrZero(r.m.currentLyrics.metadata.score)
                           ELSE loads[l].lastPub]]
           /\ ev' = Effect([NoEv EXCEPT !.kind = "Done", !.l = l, !.song = loads[l].song,
                               !.opts = loads[l].opts, !.ret = r.ret, !.results = results,
                               !.stale = Newer(l), !.prevPub = loads[l].lastPub,
                               !.sameKey = (currentSongKey = PersistenceKeyOf(loads[l].song)),
                               !.published = r.ret], r.m)
    /\ UNCHANGED <<uiCalls, search, resolver, provider, parser, sync, scoring>>

\* the indexes the UI passes: every position of the longest list, and one
\* index before and one after
SelectIndexes == -1..(NumProviders * MaxBatch + 2)

\* the UI calls selectLyric(index, saveSelection)
Select(index, save) ==
    /\ uiCalls < MaxUiCalls
    /\ uiCalls' = uiCalls + 1
    /\ LET r == selectLyric(Mgr, index, save)
       IN  /\ SetMgr(r.m)
           /\ ev' = Effect([NoEv EXCEPT !.kind = "Select", !.save = save,
                               !.oor = (index < 0 \/ index >= Len(lastResults)),
                               !.id = IF index >= 0 /\ index < Len(lastResults)
                                      THEN lastResults[index + 1].id ELSE NoId,
                               !.ret = r.ret, !.published = r.ret], r.m)
    /\ UNCHANGED <<loads, search, resolver, provider, parser, sync, scoring>>

\* markResultAsIncorrect()
MarkResultAsIncorrect ==
    /\ uiCalls < MaxUiCalls
    /\ uiCalls' = uiCalls + 1
    /\ LET m == IF currentSongKey # NoKey
                THEN [Mgr EXCEPT !.store = saveCache(localStorage, currentSongKey, lastResults, NoId)]
                ELSE Mgr
       IN  /\ SetMgr(m)
           /\ ev' = Effect([NoEv EXCEPT !.kind = "Mark"], m)
    /\ UNCHANGED <<loads, search, resolver, provider, parser, sync, scoring>>

\* the UI calls getLyricFromCache(song)
GetLyricFromCache(song) ==
    /\ uiCalls < MaxUiCalls
    /\ uiCalls' = uiCalls + 1
    /\ LET r == getLyricFromCache(Mgr, song)
       IN  /\ SetMgr(r.m)
           /\ ev' = Effect([NoEv EXCEPT !.kind = "Get", !.song = song, !.got = r.ret], r.m)
    /\ UNCHANGED <<loads, search, resolver, provider, parser, sync, scoring>>

Next ==
    \/ \E l \in Loads, song \in Songs, opts \in Options : Load(l, song, opts)
    \/ \E l \in Loads, p \in Providers, ok \in BOOLEAN :
          \E res \in ProviderReturns(p) : ProviderDone(l, p, ok, res)
    \/ \E l \in Loads : SearchDone(l)
    \/ \E index \in SelectIndexes, save \in BOOLEAN : Select(index, save)
    \/ MarkResultAsIncorrect
    \/ \E song \in Songs : GetLyricFromCache(song)

Spec == Init /\ [][Next]_vars

\* the manager whose loads are given local lyric files of two contents (the
\* file may have been edited between two loads); the UI makes no other call
LocalNext ==
    \/ \E l \in Loads, song \in Songs,
          opts \in [ignoreCache : BOOLEAN,
                    localFileContent : LocalTexts \cup {<<"localFileContent", "L2">>}] :
          Load(l, song, opts)
    \/ \E l \in Loads, p \in Providers, ok \in BOOLEAN :
          \E res \in ProviderReturns(p) : ProviderDone(l, p, ok, res)
    \/ \E l \in Loads : SearchDone(l)

SpecLocal == Init /\ [][LocalNext]_vars

\* ---------------------------------------------- the search call's steps
managerVars == <<currentLyrics, lastResults, currentSongKey, localStorage, loads, uiCalls, ev>>

\* the search of provider p settles: it returned res (ok; the candidates are
\* scored, the batch sorted and handed to onResult), or it threw
TaskDone(p, ok, res) ==
    /\ ~search.batches[p].done
    /\ ~ok => res = <<>>
    /\ LET batch == SortDesc(res)
       IN  search' = [search EXCEPT
               !.batches[p] = [done |-> TRUE, results |-> batch],
               !.returned[p] = res,
               !.failed = IF ok THEN @ ELSE @ \cup {p},
               !.arrival = Append(@, p),
               !.scoredWith[p] = search.searchAliases,
               !.calls = IF ok THEN OnResultCalls(@, batch) ELSE @]
    /\ UNCHANGED <<managerVars, resolver, provider, parser, sync, scoring>>

\* Promise.all has resolved: search returns the flattened, sorted batches
SearchResolve ==
    /\ AllSettled
    /\ ~search.resolved
    /\ search' = [search EXCEPT !.resolved = TRUE, !.result = SearchResults(search.batches)]
    /\ UNCHANGED <<managerVars, resolver, provider, parser, sync, scoring>>

SearchNext ==
    \/ \E p \in Providers, ok \in BOOLEAN :
          \E res \in ProviderReturns(p) : TaskDone(p, ok, res)
    \/ SearchResolve

SpecSearch == Init /\ [][SearchNext]_vars

\* the event loop runs the continuation of a resolved Promise.all
SpecSearchFair == SpecSearch /\ WF_vars(SearchResolve)

\* ------------------------------------------------- the resolver's steps
\* resolveQueries(song) up to its await (or, without ISRC, to its return)
ResolveCall(c, song) ==
    /\ resolver.callers[c].pc = "idle"
    /\ \A k \in Callers : k < c => resolver.callers[k].pc # "idle"
    /\ IF song.isrc = NoIsrc
       THEN resolver' = [resolver EXCEPT !.callers[c] =
                [pc |-> "returned", song |-> song, hit |-> FALSE,
                 result |-> ResolveFrom(song, <<>>)]]
       ELSE IF isrcCacheHas(resolver.isrcCache, song.isrc)
            THEN resolver' = [resolver EXCEPT !.callers[c] =
                     [pc |-> "awaiting", song |-> song, hit |-> TRUE, result |-> <<>>]]
            ELSE resolver' = [resolver EXCEPT
                     !.callers[c] = [pc |-> "awaiting", song |-> song, hit |-> FALSE,
                                     result |-> <<>>],
                     !.requests[song.isrc] = @ + 1,
                     !.isrcCache[song.isrc] = [NoPromise EXCEPT !.state = "pending"]]
    /\ UNCHANGED <<managerVars, search, provider, parser, sync, scoring>>

\* the registry answers (or fails to answer) the request for isrc: the
\* future of fetchMusicBrainzMetadata is fulfilled
RegistryRespond(isrc, ok, recordings) ==
    /\ resolver.isrcCache[isrc].state = "pending"
    /\ ~ok => recordings = <<>>
    /\ resolver' = [resolver EXCEPT !.isrcCache[isrc] =
           [state |-> "fulfilled", value |-> fetchMusicBrainzMetadata(ok, recordings),
            failed |-> ~ok, received |-> Len(recordings),
            fetched |-> fetchMusicBrainzMetadata(ok, recordings)]]
    /\ UNCHANGED <<managerVars, search, provider, parser, sync, scoring>>

\* a caller's await on the fulfilled future ends: resolveQueries runs to
\* its return
ResolveResume(c) ==
    /\ resolver.callers[c].pc = "awaiting"
    /\ resolver.isrcCache[resolver.callers[c].song.isrc].state = "fulfilled"
    /\ resolver' = [resolver EXCEPT
           !.callers[c].pc = "returned",
           !.callers[c].result =
               ResolveFrom(resolver.callers[c].song,
                           resolver.isrcCache[resolver.callers[c].song.isrc].value),
           !.isrcCache[resolver.callers[c].song.isrc].value =
               CachedAfterResolve(resolver.callers[c].song, @)]
    /\ UNCHANGED <<managerVars, search, provider, parser, sync, scoring>>

ResolverNext ==
    \/ \E c \in Callers, song \in ResolverSongs : ResolveCall(c, song)
    \/ \E isrc \in Isrcs, ok \in BOOLEAN :
          \E recordings \in RegistryResponses : RegistryRespond(isrc, ok, recordings)
    \/ \E c \in Callers : ResolveResume(c)

SpecResolver == Init /\ [][ResolverNext]_vars

\* -------------------------------------------- a provider's search steps
\* provider name's search(song, limit) is called and resolveQueries gives
\* it n queries; the search request of the first is sent
ProviderSearch(name, n) ==
    /\ provider.pc = "idle"
    /\ provider' = [NoProviderCall EXCEPT !.name = name, !.pc = "searching",
                                          !.queries = n, !.query = 1, !.requests = <<1>>]
    /\ UNCHANGED <<managerVars, search, resolver, parser, sync, scoring>>

\* a loop that collects the results of every query into allResults
AfterDoSearchCollecting(pv, results) ==
    IF pv.query < pv.queries
    THEN [pv EXCEPT !.pc = "searching", !.query = @ + 1, !.lyrics = <<>>,
                    !.result = @ \o results, !.yields = Append(@, results),
                    !.requests = Append(@, pv.query + 1)]
    ELSE [pv EXCEPT !.pc = "returned", !.result = @ \o results, !.lyrics = <<>>,
                    !.yields = Append(@, results)]

\* the for loop of search after doSearch returned results: the first
\* non-empty list is returned, [] after the last query
AfterDoSearch(pv, results) ==
    IF Len(results) > 0
    THEN [pv EXCEPT !.pc = "returned", !.result = results, !.lyrics = <<>>,
                    !.yields = Append(@, results)]
    ELSE IF pv.query < pv.queries
         THEN [pv EXCEPT !.pc = "searching", !.query = @ + 1, !.lyrics = <<>>,
                         !.yields = Append(@, results),
                         !.requests = Append(@, pv.query + 1)]
         ELSE [pv EXCEPT !.pc = "returned", !.result = <<>>, !.lyrics = <<>>,
                         !.yields = Append(@, results)]

\* LRCLIB answers the search request: every item of the array is mapped
LrclibRespond(resp) ==
    /\ provider.pc = "searching"
    /\ provider.name = "LRCLIB"
    /\ provider' = AfterDoSearch(
           [provider EXCEPT !.failed = IF resp.ok THEN @ ELSE @ \cup {provider.query}],
           IF resp.ok THEN [i \in 1..Len(resp.items) |-> mapToLyricResult(resp.items[i], i)]
           ELSE <<>>)
    /\ UNCHANGED <<managerVars, search, resolver, parser, sync, scoring>>

\* Netease or QQ Music answers the search request with no song list (or
\* code # 200, or fetch threw), or with a list of tracks, track i with id i:
\* one lyric request per track is sent
TracksRespond(resp) ==
    /\ provider.pc = "searching"
    /\ provider.name # "LRCLIB"
    /\ ~resp.ok => resp.tracks = 0
    /\ provider' = IF resp.ok /\ resp.tracks > 0
                   THEN [provider EXCEPT !.pc = "fetching",
                                         !.lyrics = [i \in 1..resp.tracks |->
                                                        [done |-> FALSE, value |-> NullResult]],
                                         !.requests = @ \o [i \in 1..resp.tracks |->
                                                                provider.query]]
                   ELSE AfterDoSearch(
                            [provider EXCEPT !.failed =
                                IF resp.ok THEN @ ELSE @ \cup {provider.query}],
                            <<>>)
    /\ UNCHANGED <<managerVars, search, resolver, parser, sync, scoring>>

\* the lyric request of track i of Netease settles
NeteaseLyricRespond(i, resp) ==
    /\ provider.pc = "fetching"
    /\ provider.name = "Netease Cloud Music"
    /\ i \in 1..Len(provider.lyrics)
    /\ ~provider.lyrics[i].done
    /\ provider' = [provider EXCEPT !.lyrics[i] =
                       [done |-> TRUE, value |-> NeteaseLyricOf(i, resp)]]
    /\ UNCHANGED <<managerVars, search, resolver, parser, sync, scoring>>

\* the lyric request of track i of QQ Music settles
QQLyricRespond(i, resp) ==
    /\ provider.pc = "fetching"
    /\ provider.name = "QQ Music"
    /\ i \in 1..Len(provider.lyrics)
    /\ ~provider.lyrics[i].done
    /\ provider' = [provider EXCEPT !.lyrics[i] =
                       [done |-> TRUE, value |-> QQLyricOf(i, resp)]]
    /\ UNCHANGED <<managerVars, search, resolver, parser, sync, scoring>>

\* Promise.all over the lyric promises has resolved: doSearch returns the
\* results that are not null
LyricsResolved ==
    /\ provider.pc = "fetching"
    /\ \A i \in 1..Len(provider.lyrics) : provider.lyrics[i].done
    /\ provider' = AfterDoSearch(provider,
           SelectSeq([i \in 1..Len(provider.lyrics) |-> provider.lyrics[i].value],
                     LAMBDA r : ~r.null))
    /\ UNCHANGED <<managerVars, search, resolver, parser, sync, scoring>>

ProviderNext ==
    \/ \E name \in {"Netease Cloud Music", "QQ Music", "LRCLIB"}, n \in 1..MaxQueries :
          ProviderSearch(name, n)
    \/ \E resp \in LrclibResponses : LrclibRespond(resp)
    \/ \E resp \in [ok : BOOLEAN, tracks : 0..MaxTracks] : TracksRespond(resp)
    \/ \E i \in 1..MaxTracks, resp \in NeteaseLyricResponses : NeteaseLyricRespond(i, resp)
    \/ \E i \in 1..MaxTracks, resp \in QQLyricResponses : QQLyricRespond(i, resp)
    \/ LyricsResolved

SpecProviders == Init /\ [][ProviderNext]_vars

\* -------------------------------------------------- the parsers' steps
\* parse(rawText) is called on a parser of the given kind and returns
Parse(kind, rawText) ==
    /\ parser.pc = "idle"
    /\ LET data == ParseOf(kind, rawText, parser.lastIndex)
       IN  parser' = [lastIndex |-> data.lastIndex, pc |-> "returned", kind |-> kind,
                      rawText |-> rawText, lastIndexAtCall |-> parser.lastIndex,
                      entries |-> data.entries, lines |-> data.lines,
                      metadata |-> data.metadata]
    /\ UNCHANGED <<managerVars, search, resolver, provider, sync, scoring>>

\* the caller drops the LyricsData; the static regular expression stays
Release ==
    /\ parser.pc = "returned"
    /\ parser' = [NoParse EXCEPT !.lastIndex = parser.lastIndex]
    /\ UNCHANGED <<managerVars, search, resolver, provider, sync, scoring>>

ParserNext ==
    \/ \E kind \in {"standard", "enhanced"},
          rawText \in UNION {[1..n -> ParserLines] : n \in 0..MaxLines} : Parse(kind, rawText)
    \/ Release

SpecParser == Init /\ [][ParserNext]_vars

\* --------------------------------------------- the synchronizer's steps
\* findLineIndex(lyrics, currentTimeMs) is called: it returns -1 for no
\* lines, or reaches the while loop
FindLineIndex(lines, currentTimeMs) ==
    /\ sync.pc \in {"idle", "returned"}
    /\ sync' = IF Len(lines) = 0
               THEN [NoFind EXCEPT !.pc = "returned", !.currentTimeMs = currentTimeMs]
               ELSE [NoFind EXCEPT !.pc = "loop", !.lines = lines,
                                   !.currentTimeMs = currentTimeMs,
                                   !.high = Len(lines) - 1]
    /\ UNCHANGED <<managerVars, search, resolver, provider, parser, scoring>>

\* one iteration of the while loop
FindLoop ==
    /\ sync.pc = "loop"
    /\ sync.low <= sync.high
    /\ sync' = LoopBody(sync)
    /\ UNCHANGED <<managerVars, search, resolver, provider, parser, scoring>>

\* the while test fails: return result
FindReturn ==
    /\ sync.pc = "loop"
    /\ sync.low > sync.high
    /\ sync' = [sync EXCEPT !.pc = "returned", !.ret = sync.result]
    /\ UNCHANGED <<managerVars, search, resolver, provider, parser, scoring>>

SyncNext ==
    \/ \E lines \in SortedLines, t \in {0, 999, 1000, 1500, 2000, 2999, 3000, 5000} :
          FindLineIndex(lines, t)
    \/ FindLoop
    \/ FindReturn

SpecSync == Init /\ [][SyncNext]_vars

\* ---------------------------------------------------- the scorer's steps
\* calculateScore(target, candidate) is called and returns
CalculateScore(target, candidate) ==
    /\ scoring = NoScoring
    /\ scoring' = [NoScoring EXCEPT !.scored = TRUE, !.target = target,
                                    !.candidate = candidate,
                                    !.score = calculateScore(target, candidate)]
    /\ UNCHANGED <<managerVars, search, resolver, provider, parser, sync>>

\* calculateSimilarity(s, t) is called and returns
CalculateSimilarity(s, t) ==
    /\ ~scoring.scored
    /\ Len(scoring.sims) < 2
    /\ scoring' = [scoring EXCEPT !.sims =
           Append(@, [s |-> s, t |-> t, sim |-> calculateSimilarity(s, t)])]
    /\ UNCHANGED <<managerVars, search, resolver, provider, parser, sync>>

\* the caller drops what it was given
ScoringRelease ==
    /\ scoring.scored \/ Len(scoring.sims) = 2
    /\ scoring' = NoScoring
    /\ UNCHANGED <<managerVars, search, resolver, provider, parser, sync>>

\* the targets the UI builds and the candidates the providers return; a
\* string is the sequence of its characters (<<>>: "" or undefined), the
\* durations are milliseconds (0: unknown or undefined)
ScoringNext ==
    \/ \E target \in
              [title : {<<"a", "b">>, <<"A", "b">>, <<>>},
               artists : {<<>>, << <<"c">> >>, << <<"c">>, <<"d">> >>, << <<"&">> >>},
               album : {<<>>, <<"e">>},
               duration : {0, 200000},
               searchAliases : {NoAliases,
                                [defined |-> TRUE, title |-> << <<"x", "y">> >>,
                                 artist |-> << <<"d">> >>]}],
          candidate \in
              [title : {<<>>, <<"a", "b">>, <<"x", "y">>},
               artist : {<<>>, <<"c">>, <<"c", ",", "z">>, <<"&">>},
               album : {<<>>, <<"e">>},
               duration : {0, 200000, 201000, 203000, 205000, 210000, 220000, 225000}] :
          CalculateScore(target, candidate)
    \/ \E s, t \in {<<>>, <<"a", "b">>, <<"A", "b">>, <<"a", "U00E9">>, <<"a", "e">>,
                    <<"A", "e", "U0301">>, <<"a", "b", "c", "d">>, <<"x">>} :
          CalculateSimilarity(s, t)
    \/ ScoringRelease

SpecScoring == Init /\ [][ScoringNext]_vars

\* ================================================================ claims
\* thresholds of the documented auto-selection policy
SelectThreshold == 45
LockThreshold == 70

PublishedScore == NumberOrZero(currentLyrics.metadata.score)

\* C1: a partial batch that arrives from a load after a newer load has been
\* invoked changes neither lastResults nor currentLyrics nor the store,
\* whether the two loads use the same persistence key or different ones.
C1_StaleCallbackNoOp ==
    (ev.kind = "Partial" /\ ev.stale) => ~(ev.chResults \/ ev.chLyrics \/ ev.chStore)

\* C2: when the search of a load completes after a newer load has been
\* invoked, its completion step changes neither currentLyrics nor lastResults.
C2_StaleCompletionNoOp ==
    (ev.kind = "Done" /\ ev.stale) => ~(ev.chLyrics \/ ev.chResults)

\* C3: once auto-promotion has published a score >= 70 during a load, no later
\* partial batch of that load replaces the published lyrics.
C3_LockAfterThreshold ==
    (ev.kind = "Partial" /\ ev.prevPub >= LockThreshold) => ~ev.chLyrics

\* C4: a partial batch whose best candidate has score <= 45 leaves
\* currentLyrics unchanged; what a partial batch auto-selects has a score
\* > 45 and greater than the score selected before.
C4_SelectionThreshold ==
    /\ (ev.kind = "Partial" /\ ev.top > 0 /\ ev.top <= SelectThreshold) => ~ev.chLyrics
    /\ (ev.kind = "Partial" /\ ev.chLyrics) =>
           (PublishedScore > SelectThreshold /\ PublishedScore > NumberOrZero(ev.prevScore))

\* C5: within one load call the published score never decreases from one
\* publication step to the next, and stays fixed once a score >= 70 (the
\* locked state) has been published.
C5_ScoreMonotoneThenFixed ==
    (ev.kind \in {"Partial", "Done"} /\ ev.published /\ ev.prevPub >= 0) =>
        /\ PublishedScore >= ev.prevPub
        /\ ev.prevPub >= LockThreshold => PublishedScore = ev.prevPub

\* C6: after selectLyric(i, true) has returned true and saved its candidate
\* under the active key, a following load (ignoreCache unset) of a song with
\* that persistence key publishes the same candidate.
C6_SelectRoundTrip ==
    [][(/\ ev.kind = "Select" /\ ev.save /\ ev.ret
        /\ currentSongKey # NoKey
        /\ localStorage[currentSongKey].present
        /\ localStorage[currentSongKey].selectedId # NoId
        /\ ev'.kind = "Load"
        /\ ~ev'.opts.ignoreCache
        /\ PersistenceKeyOf(ev'.song) = currentSongKey)
       => (/\ ev'.ret
           /\ ev'.path = "persisted"
           /\ currentLyrics'.text = currentLyrics.text
           /\ currentLyrics'.metadata = currentLyrics.metadata)]_vars

\* C7: a load with local file content, ignoreCache unset and no persisted
\* selection publishes the 'Local File' candidate (score 101) and returns true
\* at once, consulting neither the search cache nor the aggregator (stated for
\* a song without embedded lyrics).
C7_LocalPublishedAtOnce ==
    (/\ ev.kind = "Load"
     /\ ev.opts.localFileContent # NoText /\ ~ev.opts.ignoreCache /\ ev.noSel
     /\ ev.song.lyrics = NoText)
    => (/\ ev.ret
        /\ ev.path \notin {"search", "searchCache", "searchCacheEmpty"}
        /\ loads[ev.l].pc = "returned"
        /\ currentLyrics.metadata = [source |-> "Local File", score |-> StringOf(LocalScore)])

\* C8: given both local file content and embedded lyrics and no persisted
\* selection, what load publishes has source 'Local File' (score 101), not
\* 'Embedded (ID3)'.
C8_LocalBeforeEmbedded ==
    (/\ ev.kind = "Load" /\ ev.published
     /\ ev.opts.localFileContent # NoText /\ ev.song.lyrics # NoText /\ ev.noSel)
    => currentLyrics.metadata = [source |-> "Local File", score |-> StringOf(LocalScore)]

\* the case of C9: the last step was a load (ignoreCache unset, no local
\* content) of a song with embedded lyrics and no persisted selection
C9_Case ==
    /\ ev.kind = "Load"
    /\ ev.song.lyrics # NoText
    /\ ~ev.opts.ignoreCache
    /\ ev.opts.localFileContent = NoText
    /\ ev.noSel

\* C9: such a load publishes the 'Embedded (ID3)' candidate with score 100,
\* sets lastResults to that one candidate, returns true, starts no provider
\* search and writes nothing to the store.
C9_EmbeddedPublished ==
    C9_Case =>
        /\ currentLyrics = [null |-> FALSE, text |-> ev.song.lyrics,
                            metadata |-> [source |-> "Embedded (ID3)", score |-> StringOf(100)]]
        /\ Len(lastResults) = 1
        /\ lastResults[1].source = "Embedded (ID3)"
        /\ lastResults[1].score = 100
        /\ lastResults[1].lyricText = ev.song.lyrics
        /\ ev.ret
        /\ loads[ev.l].pc = "returned" /\ ~loads[ev.l].searched
        /\ ~ev.chStore

\* C9 happens with a record (selectedId = null) present under the song's key
C9_Witness ==
    /\ C9_Case
    /\ localStorage[PersistenceKeyOf(ev.song)].present
    /\ currentLyrics.metadata.source = "Embedded (ID3)"

\* the number of candidates completion puts in front of the search results
C10_Prepended ==
    (IF ev.song.lyrics # NoText THEN 1 ELSE 0)
        + (IF ev.opts.localFileContent # NoText THEN 1 ELSE 0)

\* the case of C10: a search completed and its final list is not empty
C10_Case ==
    /\ ev.kind = "Done"
    /\ Len(ev.results) + C10_Prepended > 0

C11_Case ==
    /\ ev.kind = "Load"
    /\ ~ev.opts.ignoreCache
    /\ ev.opts.localFileContent = NoText
    /\ ev.song.lyrics = NoText
    /\ ev.noSel
    /\ localStorage[SearchKeyOf(ev.song, DefaultLimit)].present

\* C11: such a load leaves the store as it was, sets lastResults to the
\* record's list, publishes the record's first entry and returns true
\* without reaching the aggregator: a repeated load for the same title,
\* primary artist and limit starts no second provider search.
C11_SearchCachePublished ==
    C11_Case =>
        LET rec == localStorage[SearchKeyOf(ev.song, DefaultLimit)]
        IN  /\ ~ev.chStore
            /\ Len(rec.results) > 0
            /\ lastResults = rec.results
            /\ currentLyrics = [null |-> FALSE, text |-> rec.results[1].lyricText,
                                metadata |-> [source |-> rec.results[1].source,
                                              score |-> StringOf(rec.results[1].score)]]
            /\ ev.ret
            /\ loads[ev.l].pc = "returned"
            /\ ~loads[ev.l].searched

\* C11 happens as the repetition of a load whose search returned two candidates
C11_Witness ==
    /\ C11_Case
    /\ ev.l > 1
    /\ Len(lastResults) > 1
    /\ lastResults[1] # lastResults[Len(lastResults)]

\* the case of C12: the last step was a load with ignoreCache = true
C12_Case ==
    /\ ev.kind = "Load"
    /\ ev.opts.ignoreCache

C13_Earlier(c) ==
    {k \in Callers : k < c /\ resolver.callers[k].pc # "idle"
                     /\ resolver.callers[k].song.isrc = resolver.callers[c].song.isrc}

\* C13: at most one registry request is ever issued per ISRC, however many
\* resolveQueries calls name it and however they interleave; the first
\* caller creates the future, every later caller finds it in the cache
\* (pending or fulfilled) and awaits it, and what a caller returns is computed
\* from that one future's value.
C13_Coalesced ==
    /\ \A i \in Isrcs :
           /\ resolver.requests[i] <= 1
           /\ resolver.requests[i] = 1 <=>
                  \E c \in Callers : resolver.callers[c].pc # "idle"
                                     /\ resolver.callers[c].song.isrc = i
           /\ resolver.requests[i] = 1 <=> resolver.isrcCache[i].state # "absent"
    /\ \A c \in Callers :
           (resolver.callers[c].pc # "idle" /\ resolver.callers[c].song.isrc # NoIsrc) =>
               (resolver.callers[c].hit <=> C13_Earlier(c) # {})

\* C13 happens with a second caller that found the first caller's future in flight
C13_Witness ==
    \E c \in Callers :
        /\ resolver.callers[c].pc = "awaiting"
        /\ resolver.callers[c].hit
        /\ resolver.isrcCache[resolver.callers[c].song.isrc].state = "pending"
        /\ resolver.requests[resolver.callers[c].song.isrc] = 1
        /\ \E k \in C13_Earlier(c) : resolver.callers[k].pc = "awaiting"

\* the provider a candidate of the search came from
C14_ProviderOf(c) == CHOOSE p \in Providers : ProviderName(p) = c.source

\* the position of provider p in the order of completion
C14_ArrivalPos(p) == CHOOSE k \in 1..Len(search.arrival) : search.arrival[k] = p

\* C14: what search returns is sorted by score descending, and candidates
\* with equal scores stand in the order in which their providers' batches
\* arrived.
C14_SortedStableByArrival ==
    search.resolved =>
        \A i, j \in 1..Len(search.result) :
            i < j =>
                /\ search.result[i].score >= search.result[j].score
                /\ search.result[i].score = search.result[j].score =>
                       C14_ArrivalPos(C14_ProviderOf(search.result[i]))
                           <= C14_ArrivalPos(C14_ProviderOf(search.result[j]))

\* the position of a candidate in its provider's sorted batch
C14_BatchPos(c) ==
    CHOOSE k \in 1..Len(search.batches[C14_ProviderOf(c)].results) :
        search.batches[C14_ProviderOf(c)].results[k] = c

\* C14 (amended): what search returns is sorted by score descending, and
\* candidates with equal scores stand in the order in which their providers
\* were registered, whatever the order of completion; equal scores of one
\* provider keep the order of its batch.
C14_SortedStableByRegistration ==
    search.resolved =>
        \A i, j \in 1..Len(search.result) :
            i < j =>
                /\ search.result[i].score >= search.result[j].score
                /\ search.result[i].score = search.result[j].score =>
                       \/ C14_ProviderOf(search.result[i]) < C14_ProviderOf(search.result[j])
                       \/ /\ C14_ProviderOf(search.result[i]) = C14_ProviderOf(search.result[j])
                          /\ C14_BatchPos(search.result[i]) < C14_BatchPos(search.result[j])

\* C14 happens with equal scores from two providers, the one registered
\* later completing first
C14_Witness ==
    /\ search.resolved
    /\ Len(search.result) > 1
    /\ search.result[1].score = search.result[2].score
    /\ search.result[1].source # search.result[2].source
    /\ search.arrival[1] > search.arrival[2]

\* the providers whose search completed without throwing, in completion order
C15_Succeeded == SelectSeq(search.arrival, LAMBDA p : p \notin search.failed)

\* those of them that returned at least one candidate
C15_NonEmpty == SelectSeq(C15_Succeeded, LAMBDA p : Len(search.returned[p]) > 0)

\* calls are the batches of the providers in order, each provider's
\* candidates sorted by score descending
C15_CallsAre(order) ==
    /\ Len(search.calls) = Len(order)
    /\ \A k \in 1..Len(order) :
           LET batch == search.calls[k]
               ret == search.returned[order[k]]
           IN  /\ Len(batch) = Len(ret)
               /\ {batch[i] : i \in 1..Len(batch)} = {ret[i] : i \in 1..Len(ret)}
               /\ \A i \in 1..Len(batch) : batch[i].source = ProviderName(order[k])
               /\ \A i, j \in 1..Len(batch) : i < j => batch[i].score >= batch[j].score

RECURSIVE C16_SucceededCount(_)
\* the number of candidates the providers p..NumProviders returned
C16_SucceededCount(p) ==
    IF p > NumProviders THEN 0 ELSE Len(search.returned[p]) + C16_SucceededCount(p + 1)

\* a failed provider's batch is empty and onResult never saw it; the result
\* of a search that has returned holds the candidates of the providers that
\* succeeded and nothing else
C16_Safety ==
    /\ \A p \in search.failed :
           /\ search.batches[p].results = <<>>
           /\ search.returned[p] = <<>>
           /\ \A k \in 1..Len(search.calls) :
                  \A i \in 1..Len(search.calls[k]) : search.calls[k][i].source # ProviderName(p)
    /\ search.resolved =>
           /\ \A p \in Providers : \A i \in 1..Len(search.returned[p]) :
                  \E j \in 1..Len(search.result) : search.result[j] = search.returned[p][i]
           /\ Len(search.result) = C16_SucceededCount(1)

\* C16: a provider whose search fails contributes an empty batch and nothing
\* else; once every provider task has settled, failed or not, search returns,
\* and its result holds every candidate of the providers that succeeded.
C16_FailureIsEmptyBatch ==
    /\ []C16_Safety
    /\ (\A p \in Providers : search.batches[p].done) ~> search.resolved

\* C16 happens with one provider failed and the other's candidates returned
C16_Witness ==
    /\ search.resolved
    /\ search.failed # {}
    /\ Len(search.result) > 0

\* the cached selection of the load's song can be restored
C17_PersistedUsable ==
    LET rec == localStorage[PersistenceKeyOf(ev.song)]
    IN  /\ rec.present
        /\ rec.selectedId # NoId
        /\ \/ \E i \in 1..Len(rec.results) : rec.results[i].id = rec.selectedId
           \/ /\ ev.song.lyrics # NoText
              /\ ~HasSource(rec.results, "Embedded (ID3)")
              /\ rec.selectedId = PidId("embedded_", ev.song)
           \/ /\ ev.opts.localFileContent # NoText
              /\ ~HasSource(rec.results, "Local File")
              /\ rec.selectedId = PidId("local_", ev.song)

\* a candidate is available to the load that has just returned: local
\* content, embedded lyrics, a usable cache entry (for a load that returned
\* without searching) or a candidate in the aggregator's result
C17_Available ==
    \/ ev.opts.localFileContent # NoText
    \/ ev.song.lyrics # NoText
    \/ /\ ev.kind = "Load"
       /\ ~ev.opts.ignoreCache
       /\ \/ C17_PersistedUsable
          \/ LET rec == localStorage[SearchKeyOf(ev.song, DefaultLimit)]
             IN  rec.present /\ Len(rec.results) > 0
    \/ /\ ev.kind = "Done"
       /\ Len(ev.results) > 0

\* the last step was the return of a load
C17_Case ==
    \/ ev.kind = "Load" /\ loads[ev.l].pc = "returned"
    \/ ev.kind = "Done"

\* C17: a load returns false exactly when no candidate is available from any
\* source, and then it has not changed currentLyrics, neither in its last step
\* nor in any earlier step of the call.
C17_FalseIffNoCandidate ==
    C17_Case =>
        /\ ev.ret <=> C17_Available
        /\ ~ev.ret => (~ev.chLyrics /\ ev.prevPub = -1)

\* C17 happens with lyrics published before the failing load returns
C17_Witness ==
    /\ C17_Case
    /\ ~ev.ret
    /\ ~currentLyrics.null

\* C18: selectLyric(index) with index < 0 or index >= the length of
\* lastResults returns false and changes neither currentLyrics nor
\* lastResults nor the store.
C18_OutOfRangeNoOp ==
    (ev.kind = "Select" /\ ev.oor) =>
        /\ ~ev.ret
        /\ ~ev.chLyrics
        /\ ~ev.chResults
        /\ ~ev.chStore

\* C18 happens with candidates in the list, an active key and save = true
C18_Witness ==
    /\ ev.kind = "Select"
    /\ ev.oor
    /\ ev.save
    /\ Len(lastResults) > 0
    /\ currentSongKey # NoKey

C20_OfPriority(pairs, n) == SelectSeq(pairs, LAMBDA q : getPriority(q) = n)

\* the registry pairs in language-priority order
C20_ByLanguage(pairs) ==
    C20_OfPriority(pairs, 3) \o C20_OfPriority(pairs, 2) \o C20_OfPriority(pairs, 1)

\* the maximum similarity between title and the pairs' titles is < 0.8
C20_AllBelow(title, pairs) ==
    \A i \in 1..Len(pairs) :
        LET sim == calculateSimilarity(title, pairs[i].title)
        IN  5 * sim.num < 4 * sim.den

\* caller c has returned and the registry gave pairs for its song's ISRC
C20_Case(c) ==
    /\ resolver.callers[c].pc = "returned"
    /\ resolver.callers[c].song.isrc # NoIsrc
    /\ Len(resolver.isrcCache[resolver.callers[c].song.isrc].value) > 0

\* C20: when the registry returned pairs and the maximum similarity between
\* song.title and their titles is < 0.8, resolveQueries returns {song.title,
\* primary artist or ""} first and then the registry pairs in
\* language-priority order, no pair twice; when the maximum is >= 0.8 it
\* returns exactly the registry pairs in language-priority order.
C20_ManualOverride ==
    \A c \in Callers :
        C20_Case(c) =>
            LET song == resolver.callers[c].song
                pairs == resolver.isrcCache[song.isrc].value
                result == resolver.callers[c].result
            IN  IF C20_AllBelow(song.title, pairs)
                THEN /\ result = <<[title |-> song.title, artist |-> song.artist]>>
                                     \o C20_ByLanguage(pairs)
                     /\ \A i, j \in 1..Len(result) : i # j => result[i] # result[j]
                ELSE result = C20_ByLanguage(pairs)

\* C20 happens with an overriding title and registry pairs that the language
\* priority reorders
C20_Witness ==
    \E c \in Callers :
        /\ C20_Case(c)
        /\ Len(resolver.callers[c].result) = 3
        /\ resolver.callers[c].result[1].title = resolver.callers[c].song.title
        /\ Tail(resolver.callers[c].result)
               # resolver.isrcCache[resolver.callers[c].song.isrc].value

\* caller c has returned from a call in which the song has no ISRC, or the
\* registry lookup failed, or the registry answered with no recordings
C21_NoRegistryPairs(c) ==
    /\ resolver.callers[c].pc = "returned"
    /\ \/ resolver.callers[c].song.isrc = NoIsrc
       \/ resolver.isrcCache[resolver.callers[c].song.isrc].failed
       \/ resolver.isrcCache[resolver.callers[c].song.isrc].received = 0

\* C21: resolveQueries never returns an empty sequence; when the song has no
\* ISRC, or the registry lookup fails, or it yields no recordings, the call
\* returns exactly the one pair {song.title, artists[0] or ""}.
C21_FallbackPair ==
    \A c \in Callers :
        /\ resolver.callers[c].pc = "returned" => Len(resolver.callers[c].result) >= 1
        /\ C21_NoRegistryPairs(c) =>
               resolver.callers[c].result =
                   <<[title |-> resolver.callers[c].song.title,
                      artist |-> resolver.callers[c].song.artist]>>

\* C21 happens after a failed lookup, for a song without primary artist, and
\* in another call for a song without ISRC
C21_Witness ==
    \E c, d \in Callers :
        /\ C21_NoRegistryPairs(c)
        /\ resolver.callers[c].song.isrc # NoIsrc
        /\ resolver.isrcCache[resolver.callers[c].song.isrc].failed
        /\ resolver.callers[c].song.artist = <<>>
        /\ C21_NoRegistryPairs(d)
        /\ resolver.callers[d].song.isrc = NoIsrc

\* C22: no provider returns a candidate whose lyricText is empty, whatever
\* the remote responses are.
C22_NoEmptyLyricText ==
    provider.pc = "returned" =>
        \A i \in 1..Len(provider.result) : provider.result[i].lyricText # ""

\* C23: parse(text) is a function of text alone: whatever was parsed before,
\* on whichever parser instances, a parse call returns the lines and the
\* metadata it returns when text is the first text ever parsed.
C23_ParseIsFunctionOfText ==
    parser.pc = "returned" =>
        /\ parser.lines = ParseOf(parser.kind, parser.rawText, 0).lines
        /\ parser.metadata = ParseOf(parser.kind, parser.rawText, 0).metadata

\* the output lines are sorted non-decreasingly by startTime
C24_Sorted(lines) ==
    \A i, j \in 1..Len(lines) : i < j => lines[i].startTime <= lines[j].startTime

\* C24: for any input text, the lines the standard parser and the enhanced
\* parser return are sorted non-decreasingly by startTime.
C24_LinesSorted ==
    parser.pc = "returned" => C24_Sorted(parser.lines)

\* C24 happens on the enhanced parser, with syllables, for a text whose
\* entries were pushed out of time order
C24_Witness ==
    /\ parser.pc = "returned"
    /\ parser.kind = "enhanced"
    /\ Len(parser.lines) >= 3
    /\ \E i \in 1..Len(parser.lines) : parser.lines[i].hasSyllables
    /\ \E i, j \in 1..Len(parser.entries) :
          i < j /\ parser.entries[i].time > parser.entries[j].time

\* the text the output line of a parsed entry carries
C25_TextOf(e) ==
    IF parser.kind = "enhanced" THEN trim(replaceAll(e.text, "syl")) ELSE e.text

\* C25: the output lines that share a start time carry the layers 0, 1, 2,
\* ... in input order; a line whose start time differs from the line before
\* it has layer 0.
C25_LayerGroups ==
    parser.pc = "returned" =>
        /\ \A i \in 1..Len(parser.lines) :
              parser.lines[i].layer =
                  Cardinality({j \in 1..(i - 1) :
                                  parser.lines[j].startTime = parser.lines[i].startTime})
        /\ \A i \in 1..Len(parser.lines) :
              (i = 1 \/ parser.lines[i - 1].startTime # parser.lines[i].startTime)
                  => parser.lines[i].layer = 0
        /\ \A t \in {parser.entries[i].time : i \in 1..Len(parser.entries)} :
              LET group == SelectSeq(parser.lines, LAMBDA l : l.startTime = t)
                  pushed == SelectSeq(parser.entries, LAMBDA e : e.time = t)
              IN  /\ Len(group) = Len(pushed)
                  /\ \A k \in 1..Len(group) :
                        group[k].layer = k - 1 /\ group[k].text = C25_TextOf(pushed[k])

\* C25 happens with a group of two lines of different text, followed by a
\* line at a later time, in a text that has the later time first
C25_Witness ==
    /\ parser.pc = "returned"
    /\ Len(parser.lines) = 3
    /\ parser.lines[1].startTime = parser.lines[2].startTime
    /\ parser.lines[1].text # parser.lines[2].text
    /\ parser.lines[2].layer = 1
    /\ parser.lines[3].startTime > parser.lines[2].startTime
    /\ parser.lines[3].layer = 0
    /\ parser.entries[1].time > parser.entries[2].time

\* the timestamp tags of line i of the text, in order
C26_Tags(i) == SelectSeq(trim(parser.rawText[i]), LAMBDA tok : tok.kind = "ts")

\* the entries the parse call pushed for line i of the text, in order
C26_Entries(i) == SelectSeq(parser.entries, LAMBDA e : e.rawIndex = i)

\* C26: a line carrying N timestamp tags yields exactly N entries, one at
\* each tagged time, each with the line's text stripped of all timestamp tags.
C26_EntryPerTag ==
    parser.pc = "returned" =>
        \A i \in 1..Len(parser.rawText) :
            Len(C26_Tags(i)) > 0 =>
                /\ Len(C26_Entries(i)) = Len(C26_Tags(i))
                /\ \A k \in 1..Len(C26_Entries(i)) :
                      /\ C26_Entries(i)[k].time = TimeMs(C26_Tags(i)[k])
                      /\ C26_Entries(i)[k].text = trim(replaceAll(trim(parser.rawText[i]), "ts"))

\* C27: for every line of enhanced-parser output that has syllables, the
\* syllables' relative start times are non-decreasing, the first is 0, and
\* every duration is >= 0, the last being 0.
C27_SyllableTimes ==
    (parser.pc = "returned" /\ parser.kind = "enhanced") =>
        \A i \in 1..Len(parser.lines) :
            parser.lines[i].hasSyllables =>
                LET syl == parser.lines[i].syllables
                IN  /\ syl[1].startTime = 0
                    /\ \A k \in 1..(Len(syl) - 1) : syl[k].startTime <= syl[k + 1].startTime
                    /\ \A k \in 1..Len(syl) : syl[k].duration >= 0
                    /\ syl[Len(syl)].duration = 0

\* the concatenation of the texts of the syllables
RECURSIVE C28_Concat(_)
C28_Concat(syl) == IF syl = <<>> THEN <<>> ELSE Head(syl).text \o C28_Concat(Tail(syl))

\* C28: for every line in which the enhanced parser finds syllable markers,
\* line.text is the concatenation of the texts of the line's syllables; a
\* line without markers is returned as the standard parser gives it, without
\* syllables.
C28_TextIsSyllables ==
    (parser.pc = "returned" /\ parser.kind = "enhanced") =>
        LET basic == StandardParse(parser.rawText, parser.lastIndexAtCall).lines
        IN  \A i \in 1..Len(parser.lines) :
                IF \E k \in 1..Len(basic[i].text) : basic[i].text[k].kind = "syl"
                THEN /\ parser.lines[i].hasSyllables
                     /\ parser.lines[i].text = C28_Concat(parser.lines[i].syllables)
                ELSE parser.lines[i] = basic[i]

\* the indexes (from 0) of the lines that start at or before the time of the call
C29_Started == {i \in 0..(Len(sync.lines) - 1) : sync.lines[i + 1] <= sync.currentTimeMs}

\* C29: for sorted lines and any time t, findLineIndex returns the largest
\* index i with lines[i].startTime <= t, and -1 exactly when t is before the
\* first line's start or there are no lines; the result is within
\* [-1, len - 1].
C29_LargestStarted ==
    sync.pc = "returned" =>
        /\ C29_Started # {} =>
              (sync.ret \in C29_Started /\ \A i \in C29_Started : i <= sync.ret)
        /\ sync.ret = -1 <=>
              (Len(sync.lines) = 0 \/ sync.currentTimeMs < sync.lines[1])
        /\ sync.ret >= -1
        /\ sync.ret <= Len(sync.lines) - 1

\* C29 happens at the start time of a layer group that is not the last
\* group: the index returned is that of the group's last line
C29_Witness ==
    /\ sync.pc = "returned"
    /\ sync.ret >= 1
    /\ sync.ret < Len(sync.lines) - 1
    /\ sync.lines[sync.ret + 1] = sync.currentTimeMs
    /\ sync.lines[sync.ret] = sync.currentTimeMs

\* C30: search invokes the QueryResolver on the song and stores the resolved
\* titles and artists on song.searchAliases before any provider is queried,
\* so that the scorer finds the aliases when it scores a provider's batch.
C30_AliasesBeforeProviders ==
    (\E p \in Providers : search.batches[p].done /\ p \notin search.failed) =>
        /\ search.resolverCalls >= 1
        /\ search.searchAliases.defined
        /\ \A p \in Providers :
              (search.batches[p].done /\ p \notin search.failed)
                  => search.scoredWith[p].defined

\* the duration term as the claim tables it
C31_Term ==
    LET t == scoring.target.duration
        c == scoring.candidate.duration
        d == IF t >= c THEN t - c ELSE c - t
    IN  IF t = 0 \/ c = 0 THEN 0
        ELSE IF d <= 1000 THEN 10
        ELSE IF d <= 3000 THEN 7
        ELSE IF d <= 5000 THEN 4
        ELSE IF d <= 10000 THEN 0
        ELSE IF d <= 20000 THEN -5
        ELSE -10

\* title, artist and album of target and candidate are the same strings
C31_Exact ==
    /\ scoring.scored
    /\ scoring.candidate.title = scoring.target.title
    /\ scoring.target.artists = <<scoring.candidate.artist>>
    /\ scoring.candidate.album = scoring.target.album

\* the three strings are there, and the artist is more than separators
C31_Present ==
    /\ scoring.target.title # <<>>
    /\ scoring.target.album # <<>>
    /\ \E i \in 1..Len(scoring.candidate.artist) :
          scoring.candidate.artist[i] \notin {"&", "/", ",", " "}

\* C31 as stated: for a target and a candidate whose title, artist and album
\* match exactly the score is 90 plus the duration term of the table, and
\* durations 200000 / 225000 give 75.
C31_ExactScore ==
    C31_Exact =>
        /\ scoring.score = 90 + C31_Term
        /\ (scoring.target.duration = 200000 /\ scoring.candidate.duration = 225000)
               => scoring.score = 75

\* C31 (amended): for a target and a candidate whose title, artist and album
\* are present (the artist with at least one token) and match exactly, the
\* score is 90 plus the duration term of the table; durations 200000 / 200000
\* give 100, 200000 / 205000 give 94 and 200000 / 225000 give 80.
C31_ExactScorePresent ==
    (C31_Exact /\ C31_Present) =>
        /\ scoring.score = 90 + C31_Term
        /\ scoring.target.duration = 200000 =>
              /\ scoring.candidate.duration = 200000 => scoring.score = 100
              /\ scoring.candidate.duration = 205000 => scoring.score = 94
              /\ scoring.candidate.duration = 225000 => scoring.score = 80

C31_Witness ==
    /\ C31_Exact
    /\ C31_Present
    /\ scoring.target.duration = 200000
    /\ scoring.candidate.duration = 225000
    /\ scoring.score = 80

\* C32: the match score calculated for any candidate against any target is
\* an integer between 0 and 100 inclusive.
C32_ScoreInRange ==
    scoring.scored => scoring.score \in 0..100

\* a string without its diacritic marks and in lower case, on the characters
\* of the strings compared: U00E9 is e with acute, U0301 the combining acute
C33_Fold(str) ==
    LET kept == SelectSeq(str, LAMBDA c : c # "U0301")
    IN  [i \in 1..Len(kept) |->
            CASE kept[i] = "U00E9" -> "e"
              [] kept[i] = "A" -> "a"
              [] kept[i] = "X" -> "x"
              [] OTHER -> kept[i]]

\* C33: similarity is reflexive, symmetric and bounded: similarity(s, s) = 1,
\* similarity(s, t) = similarity(t, s) and 0 <= similarity(s, t) <= 1;
\* strings that differ only in letter case or in diacritic marks have
\* similarity 1.
C33_SimilarityLaws ==
    /\ \A i \in 1..Len(scoring.sims) :
          LET c == scoring.sims[i]
          IN  /\ c.sim.den > 0
              /\ 0 <= c.sim.num
              /\ c.sim.num <= c.sim.den
              /\ c.s = c.t => c.sim.num = c.sim.den
              /\ C33_Fold(c.s) = C33_Fold(c.t) => c.sim.num = c.sim.den
    /\ \A i, j \in 1..Len(scoring.sims) :
          (scoring.sims[i].s = scoring.sims[j].t /\ scoring.sims[i].t = scoring.sims[j].s)
              => scoring.sims[i].sim.num * scoring.sims[j].sim.den
                     = scoring.sims[j].sim.num * scoring.sims[i].sim.den

C33_Witness ==
    /\ Len(scoring.sims) = 2
    /\ scoring.sims[1].s = <<"a", "U00E9">>
    /\ scoring.sims[1].t = <<"A", "e", "U0301">>
    /\ scoring.sims[2].s = scoring.sims[1].t
    /\ scoring.sims[2].t = scoring.sims[1].s
    /\ scoring.sims[2].sim = [num |-> 2, den |-> 2]

\* C34: getLyricFromCache(song) returns the candidate of the persisted record
\* under the song's persistence key whose id equals the record's selectedId
\* (null when there is no record, no selectedId, or no such candidate), and
\* in every state it changes neither currentLyrics, lastResults, the active
\* song key nor the persistence store.
C34_GetIsPure ==
    [][ev'.kind = "Get" =>
          LET rec == localStorage[PersistenceKeyOf(ev'.song)]
              sel == {i \in 1..Len(rec.results) : rec.results[i].id = rec.selectedId}
          IN  /\ UNCHANGED <<currentLyrics, lastResults, currentSongKey, localStorage>>
              /\ IF rec.present /\ rec.selectedId # NoId /\ sel # {}
                 THEN \E i \in sel : ev'.got = <<rec.results[i]>>
                 ELSE ev'.got = <<>>]_vars

C34_Witness ==
    /\ ev.kind = "Get"
    /\ ev.got # <<>>
    /\ lastResults # localStorage[PersistenceKeyOf(ev.song)].results
    /\ currentSongKey # PersistenceKeyOf(ev.song)

\* the queries whose search yielded a non-empty result
C35_NonEmpty == {k \in 1..Len(provider.yields) : provider.yields[k] # <<>>}

\* C35: a provider searches the resolver's query pairs one at a time in
\* resolver order and returns the candidates of the first pair whose search
\* yields a non-empty result, issuing no remote request for any later pair;
\* it returns an empty sequence only when every pair yields nothing, and a
\* failing request for one pair counts as an empty result.
C35_EarlyOut ==
    /\ \A i \in 1..Len(provider.requests) :
          /\ provider.requests[i] <= provider.query
          /\ i > 1 => provider.requests[i - 1] <= provider.requests[i]
    /\ \A k \in provider.failed : k <= Len(provider.yields) => provider.yields[k] = <<>>
    /\ provider.pc = "returned" =>
          IF C35_NonEmpty # {}
          THEN LET k == CHOOSE j \in C35_NonEmpty : \A h \in C35_NonEmpty : j <= h
               IN  /\ provider.result = provider.yields[k]
                   /\ Len(provider.yields) = k
                   /\ \A i \in 1..Len(provider.requests) : provider.requests[i] <= k
          ELSE /\ provider.result = <<>>
               /\ Len(provider.yields) = provider.queries

\* the first of two pairs yields candidates and the call returns them
C35_Witness ==
    /\ provider.pc = "returned"
    /\ provider.queries = 2
    /\ provider.query = 1
    /\ provider.result # <<>>
    /\ Len(provider.requests) > 1

\* C36: auto-promotion of a load compares candidate scores only with
\* selections made by that same load: when a partial batch of the newest
\* load arrives, that load has published nothing yet and the top of the
\* batch qualifies (its score is above the selection threshold), the step
\* publishes, whatever an earlier load left published (the UI has selected
\* nothing itself).
C36_OwnSelectionsOnly ==
    (/\ ev.kind = "Partial"
     /\ uiCalls = 0
     /\ ~ev.stale
     /\ ev.sameKey
     /\ ev.prevPub = -1
     /\ ev.top > SelectThreshold)
        => ev.published

\* C37: after every load that returns true, through any path (embedded,
\* persisted restore, search cache, or completed search), lastResults is
\* ordered by score descending.
C37_SortedAfterLoad ==
    (ev.kind \in {"Load", "Done"} /\ ev.ret) =>
        \A i \in 1..(Len(lastResults) - 1) : lastResults[i].score >= lastResults[i + 1].score

\* C38: when load is given local lyric file content, the 'Local File'
\* candidate that ends up in lastResults (and, if it is the selected one, the
\* published lyrics) carries the text supplied in this call, never a copy of
\* local content stored in the persistence record by an earlier load.
C38_LocalTextOfThisCall ==
    (/\ \/ ev.kind = "Load" /\ ev.path # "search"
        \/ ev.kind = "Done"
     /\ ev.opts.localFileContent # NoText)
        => /\ \A i \in 1..Len(lastResults) :
                  lastResults[i].source = "Local File"
                      => lastResults[i].lyricText = ev.opts.localFileContent
           /\ (ev.published /\ currentLyrics.metadata.source = "Local File")
                  => currentLyrics.text = ev.opts.localFileContent

\* C39: candidates of different providers are never merged away while
\* streaming: after a non-stale partial batch has been processed, every
\* candidate of that batch is an entry of lastResults, also when another
\* provider already delivered a candidate with the same id value.
C39_BatchKept ==
    (ev.kind = "Partial" /\ ~ev.stale /\ ev.sameKey) =>
        \A i \in 1..Len(ev.results) :
            \E j \in 1..Len(lastResults) : lastResults[j] = ev.results[i]

\* the callers that looked an ISRC up and have returned
C40_Returned ==
    {c \in Callers : resolver.callers[c].pc = "returned" /\ resolver.callers[c].song.isrc # NoIsrc}

====
